---- MODULE Spec2Model ----
(***************************************************************************)
(* Article status flags (headline, breaking, top story), their expiry      *)
(* reconciliation and the cache-aside reads of the three news sites        *)
(* (ghanascore, ghanapolitan, afrobeatsrep).                                *)
(*                                                                         *)
(* One behaviour follows one site: `site` is fixed by Init.  A request is  *)
(* a slot of `req`; every await of a handler (store call, cache call) is   *)
(* one step of the slot, so that requests interleave at those points.      *)
(* Time is in seconds.                                                     *)
(***************************************************************************)
EXTENDS Integers, Sequences, FiniteSets, TLC

VARIABLES admin, login, r2, helpers, site, store, nextId, cache, clock, ticks, req, redis, thread, vote,
          sections

vars == <<admin, login, r2, helpers, site, store, nextId, cache, clock, ticks, req, redis, thread, vote,
         sections>>

(***************************************************************************)
(* Bounds of the model.                                                    *)
(***************************************************************************)
MaxArticles == 2
MaxTicks == 2
MaxInFlight == 2
MaxCount == 3
MaxBlobs == 3
MaxFailed == 6

(***************************************************************************)
(* Program constants.                                                      *)
(***************************************************************************)
BreakingWindow == 30 * 60
TopstoryWindow == 48 * 60 * 60
Day == 24 * 60 * 60
ArticleTtl == 1800
SectionTtl == 1800
ListTtl == 300

Sites == {"ghanascore", "ghanapolitan", "afrobeatsrep"}
Ids == 1 .. MaxArticles
Slots == 1 .. MaxInFlight

\* null / undefined of a Date field
Null == -1

\* a flag of a request body: not mentioned, true or false
Tri == {"absent", "true", "false"}
Truthy(v) == v = "true"

SlugOf(id) == "slug-" \o ToString(id)

\* the Sections of ghanapolitan, named by their section_slug
SectionSlugs == {"elections", "economy"}
\* null of a section_id or a section_slug
NullSlug == "null"
Slugs == {SlugOf(i) : i \in Ids}

(***************************************************************************)
(* Documents.  breakingSince and topstorySince are history fields: the     *)
(* time the stored flag last became true.  The code never reads them.      *)
(* dates is the JavaScript type of the date-valued fields of the object:   *)
(* "Date" in a document read from the store, "string" once it has been     *)
(* through JSON.  content is the shape of the content field: "string" or   *)
(* "blocks" (an array of content blocks).  section_id, section_name and    *)
(* section_slug name the Section of a ghanapolitan Article by its slug;    *)
(* NullSlug is null and "" is no name.                                     *)
(***************************************************************************)
NoDoc ==
  [id |-> 0, slug |-> "", dates |-> "Date", isLive |-> FALSE,
   wasLive |-> FALSE, content |-> "string", isHeadline |-> FALSE,
   isBreaking |-> FALSE, breakingExpiresAt |-> Null,
   isTopstory |-> FALSE, topstoryExpiresAt |-> Null,
   breakingSince |-> Null, topstorySince |-> Null,
   section_id |-> NullSlug, section_name |-> "", section_slug |-> NullSlug,
   has_section |-> FALSE, tags |-> "", image_url |-> 0]

\* article.toObject(): what a response or a cache entry carries
ToObject(d) == [d EXCEPT !.breakingSince = Null, !.topstorySince = Null]

\* the schema of the site: which of the flags a document can hold
HasBreakingField == site \in {"ghanascore", "ghanapolitan"}
HasTopstoryField == site \in {"ghanascore", "ghanapolitan"}
HasTopstoryExpiry == site = "ghanascore"
HasLiveField == site \in {"ghanascore", "ghanapolitan"}
HasSections == site = "ghanapolitan"

Headlines == {i \in DOMAIN store : store[i].isHeadline}

\* A write of document `new` over `old`: keeps the history fields in step.
Stamp(old, new, now) ==
  [new EXCEPT
     !.breakingSince = IF new.isBreaking
                       THEN (IF old.isBreaking THEN old.breakingSince ELSE now)
                       ELSE Null,
     !.topstorySince = IF new.isTopstory
                       THEN (IF old.isTopstory THEN old.topstorySince ELSE now)
                       ELSE Null]

(***************************************************************************)
(* Request bodies.                                                         *)
(***************************************************************************)
\* form: the body came as multipart form fields (upload.fields), whose
\* values are strings; otherwise as JSON (express.json), whose are booleans
\* content is the shape of req.body.content once parsed: "string", "blocks"
\* or "absent" (an update that sends none)
\* section is the Section whose section_id, section_name, section_code and
\* section_slug the body carries, "none" for an empty section_name, "absent"
\* when the body mentions none of them
\* title is 0 for a title whose slug no Article has (on an update: no
\* title), i for the title whose slug is SlugOf(i)
\* tags is the one tag the body carries, "absent" when it carries none
\* image: the request carries an image file (req.files.image[0]); the
\* creates of the model carry none
NoBody ==
  [isHeadline |-> "absent", isBreaking |-> "absent", isTopstory |-> "absent",
   hasLivescore |-> FALSE, livescoreTag |-> FALSE, form |-> FALSE,
   isLive |-> "absent", wasLive |-> "absent", content |-> "string",
   section |-> "absent", title |-> 0, tags |-> "absent", image |-> FALSE]

\* JSON bodies
\* (a livescoreTag without hasLivescore is dropped by the handler: left out)
Bodies ==
  {b \in [isHeadline : Tri, isBreaking : Tri, isTopstory : Tri,
          hasLivescore : BOOLEAN, livescoreTag : BOOLEAN, form : {FALSE},
          isLive : {"absent"}, wasLive : {"absent"}, content : {"string"},
          section : {"absent"}, title : {0}, tags : {"absent"},
          image : {FALSE}] :
     b.livescoreTag => b.hasLivescore}

\* multipart bodies that mention no flag but isBreaking
FormBodies ==
  {[NoBody EXCEPT !.isBreaking = v, !.form = TRUE] : v \in Tri}

\* a flag of the body in a condition of a handler that does not parse it:
\* the strings 'true' and 'false' are both truthy
Holds(body, v) == v = "true" \/ (body.form /\ v = "false")

\* a flag of updateData in a condition of updateArticle: ghanascore passes
\* the flags through parseBoolean first
Sent(body, v) == IF site = "ghanascore" THEN Truthy(v) ELSE Holds(body, v)

\* bodies that mention no flag but isHeadline
HeadlineBodies ==
  {b \in Bodies : /\ b.isBreaking = "absent" /\ b.isTopstory = "absent"
                  /\ ~b.hasLivescore /\ ~b.livescoreTag}

\* bodies that mention no flag but isBreaking
BreakingBodies ==
  {b \in Bodies : /\ b.isHeadline = "absent" /\ b.isTopstory = "absent"
                  /\ ~b.hasLivescore /\ ~b.livescoreTag}

\* bodies that mention no flag but isTopstory
TopstoryBodies ==
  {b \in Bodies : /\ b.isHeadline = "absent" /\ b.isBreaking = "absent"
                  /\ ~b.hasLivescore /\ ~b.livescoreTag}

\* bodies that mention neither isBreaking nor isTopstory
PlainBodies ==
  {b \in Bodies : b.isBreaking = "absent" /\ b.isTopstory = "absent"}

\* bodies that mention no flag but isLive and wasLive, with their content
LiveBodies ==
  {[NoBody EXCEPT !.isLive = l, !.wasLive = w, !.content = c] :
     l \in Tri, w \in {"absent", "true"}, c \in {"absent", "string", "blocks"}}

\* bodies of a create: content is required
LiveCreateBodies == {b \in LiveBodies : b.content # "absent" /\ b.wasLive = "absent"}

\* bodies that mention isBreaking and isTopstory only
ExpiryBodies ==
  {b \in Bodies : b.isHeadline = "absent" /\ ~b.hasLivescore /\ ~b.livescoreTag}

(***************************************************************************)
(* Listing queries: req.query of getAllArticles and getTopStories.         *)
(***************************************************************************)
Pages == {1, 2}
Limits == {1}

ListQueries == [page : Pages, limit : Limits, isTopstory : Tri]
NoQuery == [page |-> 1, limit |-> 1, isTopstory |-> "absent"]

\* a listing response: the page of articles, the total, and (history) the
\* query it was computed for
NoList == [articles |-> <<>>, total |-> 0, query |-> NoQuery]

IdleReq ==
  [pc |-> "idle", kind |-> "none", id |-> 0, slug |-> "", body |-> NoBody,
   existing |-> NoDoc, article |-> NoDoc, count |-> 0, status |-> 0,
   cached |-> FALSE, preHeadlines |-> {}, overlapped |-> FALSE,
   query |-> NoQuery, list |-> NoList, down |-> FALSE, image |-> 0]

Idle(s) == req[s].pc \in {"idle", "done"}
InFlight(s) == ~Idle(s)

\* The answer is sent: the locals of the handler are gone.  What stays is
\* what the client saw: the request, its status and the article returned.
Done(r, st) ==
  [IdleReq EXCEPT !.pc = "done", !.kind = r.kind, !.id = r.id,
                  !.slug = r.slug, !.status = st, !.cached = r.cached,
                  !.body = [NoBody EXCEPT !.isHeadline = r.body.isHeadline],
                  !.article = IF st \in {200, 201} THEN r.article ELSE NoDoc,
                  !.preHeadlines = r.preHeadlines, !.overlapped = r.overlapped,
                  !.down = r.down]

(***************************************************************************)
(* Comments (ghanapolitan).  thread is the comments array of the Article   *)
(* with id Commented, holding one comment and one reply to it, and the __v *)
(* of that document.  last is a history field: the latest vote saved, with *)
(* the subdocument as it was before it and whether it repeated the vote    *)
(* saved before it, or was a downvote following the same voter's upvote.   *)
(***************************************************************************)
Commented == 1
MaxVersion == 4
Voters == {"ip1", "ip2"}
Targets == {"comment", "reply"}

\* the subdocument addComment and addReply push
NewItem ==
  [upvotes |-> 0, downvotes |-> 0, upvotedBy |-> <<>>, downvotedBy |-> <<>>]

NoVote ==
  [op |-> "", target |-> "", voter |-> "", before |-> NewItem, again |-> FALSE,
   switch |-> FALSE]
NoThread == [v |-> 0, items |-> [t \in {} |-> NewItem], last |-> NoVote]

IdleVote ==
  [pc |-> "idle", op |-> "", target |-> "", voter |-> "", v |-> 0,
   live |-> FALSE, before |-> NewItem, item |-> NewItem, status |-> 0]

\* arr.includes(x)
Includes(arr, x) == \E i \in DOMAIN arr : arr[i] = x
\* arr.filter((id) => id !== x)
Without(arr, x) == SelectSeq(arr, LAMBDA e : e # x)
Members(arr) == {arr[i] : i \in DOMAIN arr}

\* an upvote that leaves the voter's downvote in place
UpvotedNoSwitch(x, voter) ==
  IF Includes(x.upvotedBy, voter)
  THEN [x EXCEPT !.upvotes = @ - 1, !.upvotedBy = Without(@, voter)]
  ELSE [x EXCEPT !.upvotes = @ + 1, !.upvotedBy = Append(@, voter)]

\* an upvote that accumulates
UpvotedAgain(x, voter) ==
  [x EXCEPT !.upvotes = @ + 1, !.upvotedBy = Append(@, voter)]

\* an upvote that takes the voter out of downvotedBy and leaves downvotes
UpvotedKeepsCount(x, voter) ==
  IF Includes(x.upvotedBy, voter)
  THEN [x EXCEPT !.upvotes = @ - 1, !.upvotedBy = Without(@, voter)]
  ELSE [x EXCEPT !.downvotedBy = Without(@, voter),
                 !.upvotes = @ + 1, !.upvotedBy = Append(@, voter)]

\* the body of articleSchema.methods.upvoteComment and upvoteReply, on the
\* comment or reply x
Upvoted(x, voter) ==
  IF Includes(x.upvotedBy, voter)
  THEN [x EXCEPT !.upvotes = @ - 1, !.upvotedBy = Without(@, voter)]
  ELSE LET y == IF Includes(x.downvotedBy, voter)
                THEN [x EXCEPT !.downvotes = @ - 1,
                               !.downvotedBy = Without(@, voter)]
                ELSE x
       IN  [y EXCEPT !.upvotes = @ + 1, !.upvotedBy = Append(@, voter)]

\* a downvote that leaves the voter's upvote in place
DownvotedNoSwitch(x, voter) ==
  IF Includes(x.downvotedBy, voter)
  THEN [x EXCEPT !.downvotes = @ - 1, !.downvotedBy = Without(@, voter)]
  ELSE [x EXCEPT !.downvotes = @ + 1, !.downvotedBy = Append(@, voter)]

\* the body of articleSchema.methods.downvoteComment and downvoteReply
Downvoted(x, voter) ==
  IF Includes(x.downvotedBy, voter)
  THEN [x EXCEPT !.downvotes = @ - 1, !.downvotedBy = Without(@, voter)]
  ELSE LET y == IF Includes(x.upvotedBy, voter)
                THEN [x EXCEPT !.upvotes = @ - 1,
                               !.upvotedBy = Without(@, voter)]
                ELSE x
       IN  [y EXCEPT !.downvotes = @ + 1, !.downvotedBy = Append(@, voter)]

(***************************************************************************)
(* CacheLayer.  A key is the sequence of its ':'-separated segments; a     *)
(* pattern is a key prefix followed by '*', or an exact key.               *)
(***************************************************************************)
\* the SITE_PREFIX of the controller of site x; ghanapolitan has none
PrefixOf(x) == IF x = "ghanapolitan" THEN <<>> ELSE <<x>>
SitePrefix == PrefixOf(site)

KeyById(id) == SitePrefix \o <<"article", "id", ToString(id)>>
KeyBySlug(slug) == SitePrefix \o <<"article", slug>>

\* generateCacheKey('articles:all', { page, limit })
KeyOfAll(q) ==
  SitePrefix \o <<"articles", "all", ToString(q.page), ToString(q.limit)>>
\* `topstories:${limit}`
KeyOfTopStories(q) == SitePrefix \o <<"topstories", ToString(q.limit)>>

Glob(pre) == [pre |-> pre, star |-> TRUE]
Exact(key) == [pre |-> key, star |-> FALSE]

IsPrefix(p, k) == /\ Len(p) <= Len(k)
                  /\ \A i \in 1 .. Len(p) : p[i] = k[i]

Matches(pat, k) == IF pat.star THEN IsPrefix(pat.pre, k) ELSE k = pat.pre

\* getRedisClient() or a command of the client throws: the try/catch of
\* each helper logs the error and goes on
RedisDown == redis = "down"

\* JSON.parse(JSON.stringify(data)): a Date comes back as its ISO string
JsonDoc(d) == [d EXCEPT !.dates = "string"]
Json(data) ==
  IF "articles" \in DOMAIN data
  THEN [data EXCEPT !.articles = [i \in DOMAIN data.articles |->
                                    JsonDoc(data.articles[i])]]
  ELSE IF "headline" \in DOMAIN data
  THEN [headline |-> JsonDoc(data.headline),
        similarArticles |-> [i \in DOMAIN data.similarArticles |->
                               JsonDoc(data.similarArticles[i])]]
  ELSE JsonDoc(data)

\* a deleteCacheByPattern whose KEYS finds nothing
DeleteNoKey(c, pats) == c

\* deleteCacheByPattern for every pattern of `pats`
DeleteByPatterns(c, pats) ==
  LET keep == {k \in DOMAIN c : ~ \E p \in pats : Matches(p, k)}
  IN  IF RedisDown THEN c ELSE [k \in keep |-> c[k]]

\* setCache(key, data, ttl); ttl = Null is "no expiry"
SetCache(c, key, data, ttl, now) ==
  LET e == [val |-> Json(data), exp |-> IF ttl = Null THEN Null ELSE now + ttl]
  IN  IF RedisDown THEN c
      ELSE [k \in DOMAIN c \cup {key} |-> IF k = key THEN e ELSE c[k]]

\* getCache(key) of a client that answers whatever the connection
CacheHitUnguarded(c, key, now) ==
  /\ key \in DOMAIN c
  /\ \/ c[key].exp = Null
     \/ now < c[key].exp

\* getCache(key): an entry whose TTL has run out is gone; null when the
\* client throws
CacheHit(c, key, now) ==
  /\ ~RedisDown
  /\ key \in DOMAIN c
  /\ \/ c[key].exp = Null
     \/ now < c[key].exp

Namespaces(names) == {Glob(SitePrefix \o n) : n \in names}

\* the keys getCache would find, under the patterns `pats`
LiveKeys(c, pats, now) ==
  {k \in DOMAIN c : CacheHit(c, k, now) /\ \E p \in pats : Matches(p, k)}

\* invalidateArticleCache of the site; `slug` is "" when none is passed
InvalidatePatterns(slug) ==
  CASE site = "ghanascore" ->
         Namespaces({<<"articles">>, <<"article", "id">>, <<"headline">>,
                     <<"category">>, <<"article">>, <<"search">>,
                     <<"similar">>, <<"subcategory">>, <<"topstories">>,
                     <<"breaking">>})
    [] site = "afrobeatsrep" ->
         Namespaces({<<"articles">>, <<"article">>, <<"article", "id">>,
                     <<"headline">>, <<"category">>, <<"search">>,
                     <<"similar">>, <<"subcategory">>})
    [] OTHER ->
         Namespaces({<<"articles">>, <<"article", "id">>, <<"headline">>,
                     <<"category">>, <<"search">>, <<"similar">>,
                     <<"subcategory">>, <<"topstories">>, <<"breaking">>,
                     <<"comments">>, <<"sections">>, <<"section">>,
                     <<"articlefeed">>, <<"articles", "section">>,
                     <<"articles", "feed">>})
         \cup (IF slug = "" THEN {}
               ELSE {Exact(<<"article", slug>>),
                     Glob(<<"article", "comments">>)})

(***************************************************************************)
(* ExpiryReconciler.                                                       *)
(***************************************************************************)
\* filter { isBreaking: true, breakingExpiresAt: { $lt: now } }
ExpiredBreakingIds(st, now) ==
  {i \in DOMAIN st : /\ st[i].isBreaking
                     /\ st[i].breakingExpiresAt # Null
                     /\ st[i].breakingExpiresAt < now}

\* filter { isTopstory: true, topstoryExpiresAt: { $lt: now } }
ExpiredTopstoryIds(st, now) ==
  {i \in DOMAIN st : /\ st[i].isTopstory
                     /\ st[i].topstoryExpiresAt # Null
                     /\ st[i].topstoryExpiresAt < now}

\* statics.updateExpiredBreakingNews of the ghanascore model
ClearExpiredBreaking(st, now) ==
  [i \in DOMAIN st |->
     IF i \in ExpiredBreakingIds(st, now)
     THEN [st[i] EXCEPT !.isBreaking = FALSE, !.breakingExpiresAt = Null,
                        !.breakingSince = Null]
     ELSE st[i]]

\* statics.updateExpiredTopstories of the ghanascore model
ClearExpiredTopstories(st, now) ==
  [i \in DOMAIN st |->
     IF i \in ExpiredTopstoryIds(st, now)
     THEN [st[i] EXCEPT !.isTopstory = FALSE, !.topstoryExpiresAt = Null,
                        !.topstorySince = Null]
     ELSE st[i]]

\* The ghanapolitan controller reads .modifiedCount off the query it never
\* awaits: the query is never sent and the count is undefined.
QueryIsAwaited == site = "ghanascore"

\* the .modifiedCount of a Query object: undefined
Undefined == -2

\* updateExpiredBreakingNews of the controller: the store and the count
UpdateExpiredBreakingNews(st, now) ==
  IF QueryIsAwaited
  THEN [store |-> ClearExpiredBreaking(st, now),
        count |-> Cardinality(ExpiredBreakingIds(st, now))]
  ELSE [store |-> st, count |-> Undefined]

\* updateExpiredTopstories of the controller: the store and the count
UpdateExpiredTopstories(st, now) ==
  IF QueryIsAwaited
  THEN [store |-> ClearExpiredTopstories(st, now),
        count |-> Cardinality(ExpiredTopstoryIds(st, now))]
  ELSE [store |-> st, count |-> Undefined]

\* methods.isTopstoryExpired
IsTopstoryExpired(d, now) ==
  IF ~d.isTopstory THEN TRUE
  ELSE IF d.topstoryExpiresAt = Null THEN FALSE
  ELSE now > d.topstoryExpiresAt

(***************************************************************************)
(* Store writes.                                                           *)
(***************************************************************************)
\* a bulk demotion that demotes nothing
DemoteNone(st) == st

\* updateMany({ isHeadline: true }, { $set: { isHeadline: false } })
DemoteAll(st) == [i \in DOMAIN st |-> [st[i] EXCEPT !.isHeadline = FALSE]]

\* generateSlug(title) for the Article with this id: the slug of the title;
\* ghanapolitan's appends digits of the time, which makes it the Article's own
SlugFor(body, id) ==
  IF body.title = 0 \/ site = "ghanapolitan" THEN SlugOf(id)
  ELSE SlugOf(body.title)

\* Article.findOne({ slug }), or the unique index on slug, finds another
\* Article than `self`
SlugTaken(st, slug, self) ==
  \E i \in DOMAIN st \ {self} : st[i].slug = slug

\* new Article({...}) and the pre('validate') and pre('save') hooks of the
\* site's model: pre('validate') makes the content blocks when isLive, a
\* string otherwise; pre('save') of ghanapolitan derives has_section from
\* section_name and clears the section fields of an Article without one
NewArticle(id, body, now) ==
  LET brk == HasBreakingField /\ Truthy(body.isBreaking)
      top == HasTopstoryField /\ Truthy(body.isTopstory)
      live == HasLiveField /\ Truthy(body.isLive)
      sec == HasSections /\ body.section \in SectionSlugs
  IN  [id |-> id, slug |-> SlugFor(body, id), dates |-> "Date",
       isLive |-> live, wasLive |-> FALSE,
       content |-> IF ~HasLiveField THEN body.content
                   ELSE IF live THEN "blocks" ELSE "string",
       isHeadline |-> Truthy(body.isHeadline),
       isBreaking |-> brk,
       breakingExpiresAt |-> IF brk THEN now + BreakingWindow ELSE Null,
       isTopstory |-> top,
       topstoryExpiresAt |-> IF top /\ HasTopstoryExpiry
                             THEN now + TopstoryWindow ELSE Null,
       breakingSince |-> IF brk THEN now ELSE Null,
       topstorySince |-> IF top THEN now ELSE Null,
       section_id |-> IF sec THEN body.section ELSE NullSlug,
       section_name |-> IF sec THEN body.section ELSE "",
       section_slug |-> IF sec THEN body.section ELSE NullSlug,
       has_section |-> sec,
       tags |-> IF body.tags = "absent" THEN "" ELSE body.tags,
       image_url |-> 0]

\* the handler promotes: body asks for the headline and the document read at
\* the start of the request was not one
Promotes(r) == Sent(r.body, r.body.isHeadline) /\ ~r.existing.isHeadline

\* updateData.isHeadline as sent to findByIdAndUpdate ("absent": not sent)
UpdateHeadline(r) ==
  IF site = "ghanascore"
  THEN r.body.isHeadline
  ELSE IF Promotes(r) THEN "true"
       ELSE IF r.existing.isHeadline /\ ~Holds(r.body, r.body.isHeadline)
            THEN "false"
       ELSE r.body.isHeadline

\* updateData.breakingExpiresAt: "keep" (not sent), or the value sent
UpdateBreakingExpiry(r, now) ==
  IF Sent(r.body, r.body.isBreaking) /\ ~r.existing.isBreaking
  THEN [sent |-> TRUE, at |-> now + BreakingWindow]
  ELSE IF ~Sent(r.body, r.body.isBreaking) /\ r.existing.isBreaking
       THEN [sent |-> TRUE, at |-> Null]
       ELSE [sent |-> FALSE, at |-> Null]

\* updateData.topstoryExpiresAt (ghanascore only)
UpdateTopstoryExpiry(r, now) ==
  IF Truthy(r.body.isTopstory) /\ ~r.existing.isTopstory
  THEN [sent |-> TRUE, at |-> now + TopstoryWindow]
  ELSE IF ~Truthy(r.body.isTopstory) /\ r.existing.isTopstory
       THEN [sent |-> TRUE, at |-> Null]
       ELSE [sent |-> FALSE, at |-> Null]

\* updateArticle of ghanascore and afrobeatsrep: the body has a title that
\* is not the one of the document read first, so updateData.slug is set
Renames(r) ==
  /\ site # "ghanapolitan" /\ r.body.title # 0
  /\ SlugFor(r.body, r.id) # r.existing.slug

\* findByIdAndUpdate(id, updateData): the document after the $set; no
\* pre('validate') or pre('save') hook runs.  updateArticle of ghanapolitan
\* sets has_section from the section_name of the body and, when the body
\* has none, nulls section_id and section_slug but not the stored
\* section_name
Updated(d, r, now) ==
  LET hl == UpdateHeadline(r)
      be == UpdateBreakingExpiry(r, now)
      te == UpdateTopstoryExpiry(r, now)
      new == [d EXCEPT
        !.slug = IF Renames(r) THEN SlugFor(r.body, d.id) ELSE @,
        !.isLive = IF HasLiveField /\ r.body.isLive # "absent"
                   THEN Truthy(r.body.isLive) ELSE @,
        !.wasLive = IF HasLiveField /\ r.body.wasLive # "absent"
                    THEN Truthy(r.body.wasLive) ELSE @,
        !.content = IF r.body.content = "absent" THEN @ ELSE r.body.content,
        !.isHeadline = IF hl = "absent" THEN @ ELSE Truthy(hl),
        !.isBreaking = IF HasBreakingField /\ r.body.isBreaking # "absent"
                       THEN Truthy(r.body.isBreaking) ELSE @,
        !.breakingExpiresAt = IF HasBreakingField /\ be.sent THEN be.at ELSE @,
        !.isTopstory = IF HasTopstoryField /\ r.body.isTopstory # "absent"
                       THEN Truthy(r.body.isTopstory) ELSE @,
        !.topstoryExpiresAt = IF HasTopstoryExpiry /\ te.sent THEN te.at ELSE @,
        !.has_section = HasSections /\ r.body.section \in SectionSlugs,
        !.section_id = IF HasSections /\ r.body.section \in SectionSlugs
                       THEN r.body.section ELSE NullSlug,
        !.section_slug = IF HasSections /\ r.body.section \in SectionSlugs
                         THEN r.body.section ELSE NullSlug,
        !.section_name = IF ~HasSections \/ r.body.section = "absent" THEN @
                         ELSE IF r.body.section = "none" THEN ""
                         ELSE r.body.section,
        !.tags = IF r.body.tags = "absent" THEN @ ELSE r.body.tags,
        !.image_url = IF r.image = 0 THEN @ ELSE r.image]
  IN  Stamp(d, new, now)

\* the 400 of the ghanascore update: hasLivescore without a livescoreTag
LivescoreRejected(r) ==
  site = "ghanascore" /\ r.body.hasLivescore /\ ~r.body.livescoreTag

\* the 400 of the ghanascore update: isLive with a content that is no array
ContentRejected(r) ==
  site = "ghanascore" /\ Truthy(r.body.isLive) /\ r.body.content # "blocks"

(***************************************************************************)
(* The order of the awaits of each handler.                                *)
(***************************************************************************)
Reconciles == site \in {"ghanascore", "ghanapolitan"}

\* after updateExpiredTopstories / updateExpiredBreakingNews of a handler
AfterReconcile(r) ==
  CASE r.kind = "create" ->
         IF Holds(r.body, r.body.isHeadline) THEN "demote" ELSE "save"
    [] r.kind = "update" ->
         IF r.body.image
         THEN (IF r.existing.image_url # 0 THEN "deleteImage" ELSE "uploadImage")
         ELSE IF Promotes(r) THEN "demote" ELSE "write"
    [] r.kind = "list" -> "listFind"
    [] r.kind = "headline" -> "findHeadline"
    [] OTHER -> "findDoc"

\* after updateExpiredTopstories: getTopStories goes on to its getCache, the
\* other handlers to updateExpiredBreakingNews
AfterTopstories(r) == IF r.kind = "topstories" THEN "listCache" ELSE "recBrk"

\* the first await of createArticle
FirstOfCreate(body) ==
  CASE site = "ghanascore" -> "recTop"
    [] site = "ghanapolitan" -> "save"
    [] OTHER -> IF Holds(body, body.isHeadline) THEN "demote" ELSE "save"

(***************************************************************************)
(* Sections (ghanapolitan).  sections.docs is the Section collection in    *)
(* insertion order.  The Section schema has no section_id path, so what    *)
(* Section.findOne({ section_id }) finds depends on strictQuery of the     *)
(* Mongoose the build runs: "strip" drops the unknown path from the filter *)
(* (the first Section of the collection is found), "keep" sends it to the  *)
(* store (no Section has the field: nothing is found).  It is a property   *)
(* of the build, fixed when the first Section is created: no lookup tells  *)
(* the two apart before.                                                   *)
(***************************************************************************)
NoSection ==
  [slug |-> "", articles_count |-> 0, isActive |-> TRUE, expires_at |-> Null,
   dates |-> "Date"]

\* the answer of the latest of these handlers when it was getSectionBySlug
\* or a recount (history): the handler, the Section it was about, the
\* status, the articles_count answered (Null: none), the one stored when the
\* request came, and whether the answer came from the cache
NoAnswer ==
  [op |-> "none", slug |-> "", status |-> 0, count |-> Null, before |-> Null,
   cached |-> FALSE]

NoSections == [strictQuery |-> "unset", docs |-> <<>>, last |-> NoAnswer]

StrictQueries == {"strip", "keep"}

SectionIndex(secs, slug) ==
  IF \E i \in 1 .. Len(secs.docs) : secs.docs[i].slug = slug
  THEN CHOOSE i \in 1 .. Len(secs.docs) : secs.docs[i].slug = slug
  ELSE 0

SectionExists(slug) == SectionIndex(sections, slug) # 0
SectionOf(slug) == sections.docs[SectionIndex(sections, slug)]

\* Section.findOne({ section_id: id }): the index found, 0 for null
FindBySectionId(secs, id) ==
  IF secs.strictQuery = "strip" /\ Len(secs.docs) > 0 THEN 1 ELSE 0

\* pre('save') of the Section model: isActive follows expires_at
SectionPreSave(d, now) ==
  [d EXCEPT !.isActive = IF d.expires_at # Null THEN d.expires_at > now
                         ELSE TRUE]

\* section.save() of the document `d` read at index i
SaveSection(secs, i, d, now) ==
  [secs EXCEPT !.docs[i] = SectionPreSave(d, now)]

\* incrementArticlesCount and decrementArticlesCount of the Section model
IncrementArticlesCount(d) == [d EXCEPT !.articles_count = @ + 1]
DecrementArticlesCount(d) ==
  [d EXCEPT !.articles_count = IF @ > 0 THEN @ - 1 ELSE 0]

\* Article.countDocuments({ section_slug: slug, has_section: true })
CountDocuments(st, slug) ==
  Cardinality({i \in DOMAIN st : st[i].has_section /\ st[i].section_slug = slug})

\* the Section findOne, decrement and save of an old section id, as
\* updateArticle and assignArticleToSection make them
DecrementOld(secs, oldId, now) ==
  LET i == FindBySectionId(secs, oldId)
  IN  IF oldId = NullSlug \/ i = 0 THEN secs
      ELSE SaveSection(secs, i, DecrementArticlesCount(secs.docs[i]), now)

\* the Section findOne, increment and save of a new section id
IncrementNew(secs, newId, now) ==
  LET i == FindBySectionId(secs, newId)
  IN  IF newId = NullSlug \/ i = 0 THEN secs
      ELSE SaveSection(secs, i, IncrementArticlesCount(secs.docs[i]), now)

\* no articles_count has reached the bound of the model
CountsBelowMax ==
  \A i \in 1 .. Len(sections.docs) : sections.docs[i].articles_count < MaxCount

\* updateArticle of ghanapolitan after findByIdAndUpdate: oldSectionId is
\* the section_id of the document read first, newSectionId the one of the
\* body
MoveCounts(secs, r, now) ==
  LET oldId == r.existing.section_id
      newId == IF r.body.section \in SectionSlugs THEN r.body.section
               ELSE NullSlug
  IN  IF ~HasSections \/ oldId = newId THEN secs
      ELSE IncrementNew(DecrementOld(secs, oldId, now), newId, now)

(***************************************************************************)
(* Init: an empty store, an empty cache, no request.                       *)
(***************************************************************************)
\* the Admin account: loginAttempts (default 0) and lockUntil (Null: unset).
\* failed and fifthAt are history fields: the failed password attempts
\* answered since the last successful login, and the moment of the fifth
NoAdmin == [loginAttempts |-> 0, lockUntil |-> Null, failed |-> 0, fifthAt |-> Null]

\* a login request: the loginAttempts and lockUntil of the document it read;
\* valid: the password it carries is the right one.  History fields:
\* checked (bcrypt.compare ran), afterFifth (it came within two hours of the
\* fifth failed attempt)
LoginSlots == {1, 2}
IdleLogin ==
  [pc |-> "idle", valid |-> FALSE, loginAttempts |-> 0, lockUntil |-> Null,
   status |-> 0, checked |-> FALSE, afterFifth |-> FALSE]

\* the R2 bucket: the keys of its objects, and the key the next upload gets
\* (`${folder}/${Date.now()}-${random}`: one no object had before)
NoBlobs == [objects |-> {}, next |-> 1]

\* no title has been given to the slug helper yet
NoSlug == [title |-> <<>>, slug |-> <<>>, done |-> FALSE]

\* the services after start: stores, cache and requests
Started ==
  /\ site \in Sites
  /\ store = [i \in {} |-> NoDoc]
  /\ nextId = 1
  /\ cache = [k \in {} |-> [val |-> NoDoc, exp |-> Null]]
  /\ clock = 0
  /\ ticks = 0
  /\ req = [s \in Slots |-> IdleReq]
  /\ redis = "up"
  /\ thread = NoThread
  /\ vote = [s \in Slots |-> IdleVote]
  /\ sections = NoSections
  /\ r2 = NoBlobs
  /\ admin = NoAdmin
  /\ login = [s \in LoginSlots |-> IdleLogin]

Init == Started /\ helpers = NoSlug

\* a request arrives in slot s; the history fields note the headlines at
\* that moment, whether another request is in flight and whether Redis is
\* down
Arrive(s, r) ==
  LET busy == \E o \in Slots \ {s} : InFlight(o)
  IN  req' = [o \in Slots |->
                IF o = s
                THEN [r EXCEPT !.preHeadlines = Headlines, !.overlapped = busy,
                               !.down = (redis = "down")]
                ELSE IF InFlight(o) THEN [req[o] EXCEPT !.overlapped = TRUE]
                ELSE req[o]]

(***************************************************************************)
(* Requests.                                                               *)
(***************************************************************************)
\* the title of a body, when it is not one of its own, is the title of an
\* Article of the store
TitleKnown(body) == body.title # 0 => body.title \in DOMAIN store

\* creates that have not saved yet
PendingCreates == {o \in Slots : InFlight(o) /\ req[o].kind = "create" /\ req[o].id = 0}

CreateArticle(s, B) ==
  /\ Idle(s)
  /\ nextId + Cardinality(PendingCreates) <= MaxArticles
  /\ \E body \in B :
       /\ TitleKnown(body)
       /\ Arrive(s, [IdleReq EXCEPT !.pc = FirstOfCreate(body),
                                 !.kind = "create", !.body = body])
  /\ UNCHANGED <<admin, login, r2, helpers, sections, site, redis, thread, vote, store, nextId, cache, clock, ticks>>

UpdateArticle(s, B) ==
  /\ Idle(s)
  /\ \E id \in Ids, body \in B :
       /\ body.section \in SectionSlugs => CountsBelowMax
       /\ body.image => r2.next <= MaxBlobs
       /\ TitleKnown(body)
       /\ Arrive(s, [IdleReq EXCEPT !.pc = "find", !.kind = "update",
                                 !.id = id, !.body = body])
  /\ UNCHANGED <<admin, login, r2, helpers, sections, site, redis, thread, vote, store, nextId, cache, clock, ticks>>

DeleteArticle(s) ==
  /\ Idle(s)
  /\ \E id \in Ids :
       Arrive(s, [IdleReq EXCEPT !.pc = "find", !.kind = "delete", !.id = id])
  /\ UNCHANGED <<admin, login, r2, helpers, sections, site, redis, thread, vote, store, nextId, cache, clock, ticks>>

GetArticleById(s) ==
  /\ Idle(s)
  /\ \E id \in Ids :
       Arrive(s, [IdleReq EXCEPT !.pc = "cacheGet", !.kind = "getById",
                                 !.id = id])
  /\ UNCHANGED <<admin, login, r2, helpers, sections, site, redis, thread, vote, store, nextId, cache, clock, ticks>>

GetArticleBySlug(s) ==
  /\ Idle(s)
  /\ \E slug \in Slugs :
       Arrive(s, [IdleReq EXCEPT !.pc = "cacheGet", !.kind = "getBySlug",
                                 !.slug = slug])
  /\ UNCHANGED <<admin, login, r2, helpers, sections, site, redis, thread, vote, store, nextId, cache, clock, ticks>>

(***************************************************************************)
(* The awaits of the write handlers.                                       *)
(***************************************************************************)
\* Article.findById(id) of updateArticle and deleteArticle
FindExisting(s) ==
  LET r == req[s] IN
  /\ r.pc = "find"
  /\ req' = [req EXCEPT ![s] =
       IF r.id \notin DOMAIN store THEN Done(r, 404)
       ELSE LET found == [r EXCEPT !.existing = ToObject(store[r.id])]
            IN  [found EXCEPT !.pc = IF r.kind = "delete"
                                     THEN (IF found.existing.image_url # 0
                                           THEN "deleteImage" ELSE "remove")
                                     ELSE IF Reconciles THEN "recTop"
                                     ELSE AfterReconcile(found)]]
  /\ UNCHANGED <<admin, login, r2, helpers, sections, site, redis, thread, vote, store, nextId, cache, clock, ticks>>

\* await updateExpiredTopstories(): the store pass
ReconcileTopstories(s) ==
  LET r == req[s]
      res == UpdateExpiredTopstories(store, clock) IN
  /\ r.pc = "recTop"
  /\ store' = res.store
  /\ req' = [req EXCEPT ![s] =
       [r EXCEPT !.count = res.count,
                 !.pc = IF res.count > 0 THEN "recTopInval"
                        ELSE AfterTopstories(r)]]
  /\ UNCHANGED <<admin, login, r2, helpers, sections, site, redis, thread, vote, nextId, cache, clock, ticks>>

\* ... and, when it cleared a flag, its two deleteCacheByPattern
ReconcileTopstoriesInvalidate(s) ==
  LET r == req[s] IN
  /\ r.pc = "recTopInval"
  /\ cache' = DeleteByPatterns(cache, Namespaces({<<"topstories">>, <<"articles">>}))
  /\ req' = [req EXCEPT ![s] = [r EXCEPT !.pc = AfterTopstories(r)]]
  /\ UNCHANGED <<admin, login, r2, helpers, sections, site, redis, thread, vote, store, nextId, clock, ticks>>

\* await updateExpiredBreakingNews(): the store pass
ReconcileBreaking(s) ==
  LET r == req[s]
      res == UpdateExpiredBreakingNews(store, clock) IN
  /\ r.pc = "recBrk"
  /\ store' = res.store
  /\ req' = [req EXCEPT ![s] =
       [r EXCEPT !.count = res.count,
                 !.pc = IF res.count > 0 THEN "recBrkInval" ELSE AfterReconcile(r)]]
  /\ UNCHANGED <<admin, login, r2, helpers, sections, site, redis, thread, vote, nextId, cache, clock, ticks>>

ReconcileBreakingInvalidate(s) ==
  LET r == req[s] IN
  /\ r.pc = "recBrkInval"
  /\ cache' = DeleteByPatterns(cache, Namespaces({<<"breaking">>, <<"articles">>}))
  /\ req' = [req EXCEPT ![s] = [r EXCEPT !.pc = AfterReconcile(r)]]
  /\ UNCHANGED <<admin, login, r2, helpers, sections, site, redis, thread, vote, store, nextId, clock, ticks>>

\* await Article.updateMany({ isHeadline: true }, ...)
DemoteHeadlines(s) ==
  LET r == req[s] IN
  /\ r.pc = "demote"
  /\ store' = DemoteAll(store)
  /\ req' = [req EXCEPT ![s] = [r EXCEPT !.pc = "demoteInval"]]
  /\ UNCHANGED <<admin, login, r2, helpers, sections, site, redis, thread, vote, nextId, cache, clock, ticks>>

\* await deleteCacheByPattern('headline:*')
DemoteInvalidate(s) ==
  LET r == req[s] IN
  /\ r.pc = "demoteInval"
  /\ cache' = DeleteByPatterns(cache, Namespaces({<<"headline">>}))
  /\ req' = [req EXCEPT ![s] =
       [r EXCEPT !.pc = IF r.kind = "create" THEN "save" ELSE "write"]]
  /\ UNCHANGED <<admin, login, r2, helpers, sections, site, redis, thread, vote, store, nextId, clock, ticks>>

\* await deleteFromR2(existingArticle.image_url) of updateArticle and
\* deleteFromR2(article.image_url) of deleteArticle; an R2 error is thrown
\* on and answered 500
DeleteImage(s) ==
  LET r == req[s] IN
  /\ r.pc = "deleteImage"
  /\ \E ok \in BOOLEAN :
       IF ok
       THEN /\ r2' = [r2 EXCEPT !.objects = @ \ {r.existing.image_url}]
            /\ req' = [req EXCEPT ![s] =
                 [r EXCEPT !.pc = IF r.kind = "delete" THEN "remove"
                                  ELSE "uploadImage"]]
       ELSE /\ req' = [req EXCEPT ![s] = Done(r, 500)]
            /\ UNCHANGED r2
  /\ UNCHANGED <<admin, login, helpers, sections, site, redis, thread, vote, store, nextId, cache, clock, ticks>>

\* updateData.image_url = await uploadToR2(...); an R2 error is thrown on
\* and answered 500
UploadImage(s) ==
  LET r == req[s] IN
  /\ r.pc = "uploadImage"
  /\ \E ok \in BOOLEAN :
       IF ok
       THEN /\ r2' = [objects |-> r2.objects \cup {r2.next}, next |-> r2.next + 1]
            /\ req' = [req EXCEPT ![s] =
                 [r EXCEPT !.image = r2.next,
                           !.pc = IF Promotes(r) THEN "demote" ELSE "write"]]
       ELSE /\ req' = [req EXCEPT ![s] = Done(r, 500)]
            /\ UNCHANGED r2
  /\ UNCHANGED <<admin, login, helpers, sections, site, redis, thread, vote, store, nextId, cache, clock, ticks>>

\* Article.findOne({ slug: articleSlug }) of createArticle (400 'Slug
\* already exists'), then await article.save(); ghanapolitan answers right
\* after
SaveArticle(s) ==
  LET r == req[s]
      doc == NewArticle(nextId, r.body, clock) IN
  /\ r.pc = "save"
  /\ IF SlugTaken(store, doc.slug, nextId)
     THEN /\ req' = [req EXCEPT ![s] = Done(r, 400)]
          /\ UNCHANGED <<store, nextId>>
     ELSE /\ store' = [i \in DOMAIN store \cup {nextId} |->
                        IF i = nextId THEN doc ELSE store[i]]
          /\ nextId' = nextId + 1
          /\ req' = [req EXCEPT ![s] =
               IF site = "ghanapolitan"
               THEN Done([r EXCEPT !.id = nextId, !.article = ToObject(doc)], 201)
               ELSE [r EXCEPT !.id = nextId, !.article = ToObject(doc),
                              !.pc = "invalidate"]]
  /\ UNCHANGED <<admin, login, r2, helpers, sections, site, redis, thread, vote, cache, clock, ticks>>

\* the livescoreTag and content checks, then await
\* Article.findByIdAndUpdate(id, updateData) and, on ghanapolitan, the
\* Section lookups and saves that move the counts
WriteUpdate(s) ==
  LET r == req[s] IN
  /\ r.pc = "write"
  /\ IF LivescoreRejected(r) \/ ContentRejected(r)
     THEN /\ req' = [req EXCEPT ![s] = Done(r, 400)]
          /\ UNCHANGED <<store, sections>>
     ELSE IF /\ r.id \in DOMAIN store /\ Renames(r)
             /\ SlugTaken(store, SlugFor(r.body, r.id), r.id)
     THEN \* the unique index on slug: error 11000, 'Slug must be unique'
          /\ req' = [req EXCEPT ![s] = Done(r, 400)]
          /\ UNCHANGED <<store, sections>>
     ELSE IF r.id \in DOMAIN store
     THEN LET doc == Updated(store[r.id], r, clock) IN
          /\ store' = [store EXCEPT ![r.id] = doc]
          /\ sections' = MoveCounts(sections, r, clock)
          /\ req' = [req EXCEPT ![s] =
               [r EXCEPT !.article = ToObject(doc), !.pc = "invalidate"]]
     ELSE \* the document is gone: findByIdAndUpdate answers null; ghanapolitan
          \* moves the counts, then reads article.slug (TypeError, 500)
          /\ req' = [req EXCEPT ![s] =
               IF site = "ghanapolitan" THEN Done(r, 500)
               ELSE [r EXCEPT !.article = NoDoc, !.pc = "invalidate"]]
          /\ sections' = MoveCounts(sections, r, clock)
          /\ UNCHANGED store
  /\ UNCHANGED <<admin, login, r2, helpers, site, redis, thread, vote, nextId, cache, clock, ticks>>

\* await article.deleteOne() and, on ghanapolitan, the Section lookup,
\* decrement and save for the section_id of the document read first
RemoveArticle(s) ==
  LET r == req[s] IN
  /\ r.pc = "remove"
  /\ store' = [i \in DOMAIN store \ {r.id} |-> store[i]]
  /\ thread' = IF r.id = Commented THEN NoThread ELSE thread
  /\ sections' = IF HasSections
                 THEN DecrementOld(sections, r.existing.section_id, clock)
                 ELSE sections
  /\ req' = [req EXCEPT ![s] = [r EXCEPT !.pc = "invalidate"]]
  /\ UNCHANGED <<admin, login, r2, helpers, site, redis, vote, nextId, cache, clock, ticks>>

\* the key under which a write handler stores the headline it wrote
HeadlineKeyOfWrite(r) ==
  IF site = "afrobeatsrep" /\ r.kind = "create"
  THEN <<site, "headline", "current">>
  ELSE <<"headline", "current">>

\* await invalidateArticleCache(...); the handler answers unless it goes on
\* to setCache the headline
InvalidateArticleCache(s) ==
  LET r == req[s]
      slug == IF site = "ghanapolitan"
              THEN (IF r.kind = "delete" THEN r.existing.slug ELSE r.article.slug)
              ELSE ""
      next ==
        CASE r.kind = "delete" -> Done(r, 200)
          [] site = "ghanascore" ->
               Done(r, IF r.kind = "create" THEN 201 ELSE 200)
          [] r.kind = "create" ->
               IF Holds(r.body, r.body.isHeadline)
               THEN [r EXCEPT !.pc = "cacheHeadline"] ELSE Done(r, 201)
          [] OTHER ->
               IF r.article = NoDoc THEN Done(r, 500)
               ELSE IF r.article.isHeadline
               THEN [r EXCEPT !.pc = "cacheHeadline"] ELSE Done(r, 200)
  IN
  /\ r.pc = "invalidate"
  /\ cache' = DeleteByPatterns(cache, InvalidatePatterns(slug))
  /\ req' = [req EXCEPT ![s] = next]
  /\ UNCHANGED <<admin, login, r2, helpers, sections, site, redis, thread, vote, store, nextId, clock, ticks>>

\* await setCache('headline:current', { headline: article, ... }, null)
CacheHeadline(s) ==
  LET r == req[s] IN
  /\ r.pc = "cacheHeadline"
  /\ cache' = SetCache(cache, HeadlineKeyOfWrite(r),
                       [headline |-> r.article, similarArticles |-> <<>>],
                       Null, clock)
  /\ req' = [req EXCEPT ![s] = Done(r, IF r.kind = "create" THEN 201 ELSE 200)]
  /\ UNCHANGED <<admin, login, r2, helpers, sections, site, redis, thread, vote, store, nextId, clock, ticks>>

(***************************************************************************)
(* The awaits of getArticleById and getArticleBySlug.                      *)
(***************************************************************************)
ReadKey(r) == IF r.kind = "getById" THEN KeyById(r.id) ELSE KeyBySlug(r.slug)

\* await getCache(cacheKey): a hit is answered at once
GetCache(s) ==
  LET r == req[s]
      key == ReadKey(r) IN
  /\ r.pc = "cacheGet"
  /\ req' = [req EXCEPT ![s] =
       IF CacheHit(cache, key, clock)
       THEN Done([r EXCEPT !.article = cache[key].val, !.cached = TRUE], 200)
       ELSE [r EXCEPT !.pc = IF r.kind = "getBySlug" /\ Reconciles
                             THEN "recBrk" ELSE "findDoc"]]
  /\ UNCHANGED <<admin, login, r2, helpers, sections, site, redis, thread, vote, store, nextId, cache, clock, ticks>>

\* the documents a read finds: findById(id) or findOne({ slug })
Found(r) ==
  IF r.kind = "getById"
  THEN {i \in DOMAIN store : i = r.id}
  ELSE {i \in DOMAIN store : store[i].slug = r.slug}

\* await Article.findById / findOne
FindDoc(s) ==
  LET r == req[s] IN
  /\ r.pc = "findDoc"
  /\ req' = [req EXCEPT ![s] =
       IF Found(r) = {} THEN Done(r, 404)
       ELSE LET d == store[CHOOSE i \in Found(r) : TRUE]
                got == [r EXCEPT !.id = d.id, !.article = ToObject(d)]
            IN  IF /\ site = "ghanascore" /\ r.kind = "getBySlug"
                   /\ d.isTopstory /\ IsTopstoryExpired(d, clock)
                THEN [got EXCEPT !.pc = "expireSave"]
                ELSE [got EXCEPT !.pc = "cacheSet"]]
  /\ UNCHANGED <<admin, login, r2, helpers, sections, site, redis, thread, vote, store, nextId, cache, clock, ticks>>

\* getArticleBySlug of ghanascore: article.isTopstory = false;
\* article.topstoryExpiresAt = null; await article.save()
ExpireTopstoryOnRead(s) ==
  LET r == req[s] IN
  /\ r.pc = "expireSave"
  /\ IF r.id \in DOMAIN store
     THEN LET doc == [store[r.id] EXCEPT !.isTopstory = FALSE,
                                         !.topstoryExpiresAt = Null,
                                         !.topstorySince = Null] IN
          /\ store' = [store EXCEPT ![r.id] = doc]
          /\ req' = [req EXCEPT ![s] =
               [r EXCEPT !.article = [r.article EXCEPT !.isTopstory = FALSE,
                                                       !.topstoryExpiresAt = Null],
                         !.pc = "expireInval"]]
     ELSE /\ req' = [req EXCEPT ![s] = Done(r, 500)]
          /\ UNCHANGED store
  /\ UNCHANGED <<admin, login, r2, helpers, sections, site, redis, thread, vote, nextId, cache, clock, ticks>>

\* await deleteCacheByPattern('topstories:*')
ExpireTopstoryInvalidate(s) ==
  LET r == req[s] IN
  /\ r.pc = "expireInval"
  /\ cache' = DeleteByPatterns(cache, Namespaces({<<"topstories">>}))
  /\ req' = [req EXCEPT ![s] = [r EXCEPT !.pc = "cacheSet"]]
  /\ UNCHANGED <<admin, login, r2, helpers, sections, site, redis, thread, vote, store, nextId, clock, ticks>>

\* await setCache(cacheKey, responseData, 1800), then the answer
CacheSet(s) ==
  LET r == req[s] IN
  /\ r.pc = "cacheSet"
  /\ cache' = SetCache(cache, ReadKey(r), r.article, ArticleTtl, clock)
  /\ req' = [req EXCEPT ![s] = Done(r, 200)]
  /\ UNCHANGED <<admin, login, r2, helpers, sections, site, redis, thread, vote, store, nextId, clock, ticks>>

(***************************************************************************)
(* getAllArticles and getTopStories.                                       *)
(***************************************************************************)
GetAllArticles(s) ==
  /\ Idle(s)
  /\ \E q \in ListQueries :
       Arrive(s, [IdleReq EXCEPT !.pc = "listCache", !.kind = "list",
                                 !.query = q])
  /\ UNCHANGED <<admin, login, r2, helpers, sections, site, redis, thread, vote, store, nextId, cache, clock, ticks>>

\* (afrobeatsrep has no such handler)
GetTopStories(s) ==
  /\ Idle(s)
  /\ HasTopstoryField
  /\ \E l \in Limits :
       Arrive(s, [IdleReq EXCEPT !.pc = "recTop", !.kind = "topstories",
                                 !.query = [NoQuery EXCEPT !.limit = l,
                                                           !.isTopstory = "true"]])
  /\ UNCHANGED <<admin, login, r2, helpers, sections, site, redis, thread, vote, store, nextId, cache, clock, ticks>>

ListKey(r) ==
  IF r.kind = "topstories" THEN KeyOfTopStories(r.query) ELSE KeyOfAll(r.query)

\* the filter of Article.find(query): getAllArticles of afrobeatsrep reads
\* no flag of req.query
ListFilter(q) ==
  IF HasTopstoryField /\ q.isTopstory # "absent"
  THEN [filtered |-> TRUE, isTopstory |-> q.isTopstory = "true"]
  ELSE [filtered |-> FALSE, isTopstory |-> FALSE]

Matching(st, q) ==
  {i \in DOMAIN st :
     ListFilter(q).filtered => st[i].isTopstory = ListFilter(q).isTopstory}

\* sort({ published_at: -1 }): the newest first
RECURSIVE NewestFirst(_)
NewestFirst(ids) ==
  IF ids = {} THEN <<>>
  ELSE LET m == CHOOSE x \in ids : \A y \in ids : y <= x
       IN  <<m>> \o NewestFirst(ids \ {m})

\* skip((page - 1) * limit).limit(limit); getTopStories has no skip
PageOf(seq, q, kind) ==
  LET skip == IF kind = "topstories" THEN 0 ELSE (q.page - 1) * q.limit
      last == IF skip + q.limit < Len(seq) THEN skip + q.limit ELSE Len(seq)
  IN  SubSeq(seq, skip + 1, last)

\* Article.find(query)... and Article.countDocuments(query)
FindList(st, q, kind) ==
  LET ids == PageOf(NewestFirst(Matching(st, q)), q, kind)
  IN  [articles |-> [n \in 1 .. Len(ids) |-> ToObject(st[ids[n]])],
       total |-> Cardinality(Matching(st, q)),
       query |-> q]

\* await getCache(cacheKey): a hit is answered at once
ListCacheGet(s) ==
  LET r == req[s]
      key == ListKey(r) IN
  /\ r.pc = "listCache"
  /\ req' = [req EXCEPT ![s] =
       IF CacheHit(cache, key, clock)
       THEN Done([r EXCEPT !.list = cache[key].val, !.cached = TRUE], 200)
       ELSE [r EXCEPT !.pc = IF r.kind = "list" /\ Reconciles
                             THEN "recTop" ELSE "listFind"]]
  /\ UNCHANGED <<admin, login, r2, helpers, sections, site, redis, thread, vote, store, nextId, cache, clock, ticks>>

ListFind(s) ==
  LET r == req[s] IN
  /\ r.pc = "listFind"
  /\ req' = [req EXCEPT ![s] =
       [r EXCEPT !.list = FindList(store, r.query, r.kind), !.pc = "listSet"]]
  /\ UNCHANGED <<admin, login, r2, helpers, sections, site, redis, thread, vote, store, nextId, cache, clock, ticks>>

\* await setCache(cacheKey, responseData, 300), then the answer
ListSet(s) ==
  LET r == req[s] IN
  /\ r.pc = "listSet"
  /\ cache' = SetCache(cache, ListKey(r), r.list, ListTtl, clock)
  /\ req' = [req EXCEPT ![s] = Done(r, 200)]
  /\ UNCHANGED <<admin, login, r2, helpers, sections, site, redis, thread, vote, store, nextId, clock, ticks>>

(***************************************************************************)
(* The cache server.                                                       *)
(***************************************************************************)
\* Redis becomes unreachable, between two requests, and stays so: from now
\* on every cache operation fails.  What it holds is out of reach.
RedisFails ==
  /\ redis = "up"
  /\ \A s \in Slots : Idle(s)
  /\ redis' = "down"
  /\ UNCHANGED <<admin, login, r2, helpers, sections, site, thread, vote, store, nextId, cache, clock, ticks, req>>

(***************************************************************************)
(* Time and the hourly job.                                                *)
(***************************************************************************)
\* A request is short against the windows and the TTLs: the clock moves
\* between requests.
Tick(D) ==
  /\ ticks < MaxTicks
  /\ \A s \in Slots : Idle(s)
  /\ \E d \in D : clock' = clock + d
  /\ ticks' = ticks + 1
  /\ UNCHANGED <<admin, login, r2, helpers, sections, site, redis, thread, vote, store, nextId, cache, req>>

\* cron.schedule('0 * * * *', ...): Article.updateExpiredTopstories() and
\* nothing else.  The model static it calls is the one of ghanascore.  The
\* hour is not modelled: the job may run at any time.
CronJob ==
  /\ site = "ghanascore"
  /\ store' = ClearExpiredTopstories(store, clock)
  /\ UNCHANGED <<admin, login, r2, helpers, sections, site, redis, thread, vote, nextId, cache, clock, ticks, req>>

(***************************************************************************)
(* The handlers of section.controller.js and the handlers of               *)
(* article.controller.js that assign an Article to a Section               *)
(* (ghanapolitan).  Each runs with no other request in flight and is one   *)
(* step.                                                                   *)
(***************************************************************************)
Quiet == \A s \in Slots : Idle(s)

KeyOfSection(slug) == <<"section", "slug", slug>>

\* invalidateSectionCache(slug)
SectionPatterns(slug) ==
  Namespaces({<<"sections">>, <<"section", "id">>, <<"section", "slug">>,
              <<"section", "code">>})
  \cup {Exact(<<"section", slug>>), Glob(<<"articles", "section", "slug", slug>>)}

\* an expires_at of a request body: a date that has passed, or one a day on
SectionExpiries(now) == {0, now + Day}

Answer(op, slug, status) ==
  [NoAnswer EXCEPT !.op = op, !.slug = slug, !.status = status]

\* createSection: 400 on a section_code or a section_slug that exists; E
\* is the set of the expires_at of the bodies (Null: none)
CreateSection(slug, E) ==
  /\ HasSections /\ Quiet
  /\ IF SectionExists(slug)
     THEN /\ sections' = [sections EXCEPT !.last = NoAnswer]
          /\ UNCHANGED cache
     ELSE \E e \in E, q \in StrictQueries :
            LET doc == SectionPreSave([NoSection EXCEPT !.slug = slug,
                                                        !.expires_at = e], clock)
            IN  /\ sections' =
                     [strictQuery |-> IF sections.strictQuery = "unset" THEN q
                                      ELSE sections.strictQuery,
                      docs |-> Append(sections.docs, doc),
                      last |-> NoAnswer]
                /\ cache' = DeleteByPatterns(cache, SectionPatterns(slug))
  /\ UNCHANGED <<admin, login, r2, helpers, site, redis, thread, vote, store, nextId, clock, ticks, req>>

\* updateSection: Section.findByIdAndUpdate(id, updateData), no hook runs;
\* the body may carry expires_at (Null: it has none) and isActive
UpdateSection(slug) ==
  /\ HasSections /\ Quiet
  /\ IF ~SectionExists(slug)
     THEN /\ sections' = [sections EXCEPT !.last = NoAnswer]
          /\ UNCHANGED cache
     ELSE \E e \in {Null} \cup SectionExpiries(clock), a \in Tri :
            LET i == SectionIndex(sections, slug)
                doc == [sections.docs[i] EXCEPT
                          !.expires_at = IF e = Null THEN @ ELSE e,
                          !.isActive = IF a = "absent" THEN @ ELSE Truthy(a)]
            IN  /\ sections' =
                     [sections EXCEPT !.docs[i] = doc,
                        !.last = NoAnswer]
                /\ cache' = DeleteByPatterns(cache, SectionPatterns(slug))
  /\ UNCHANGED <<admin, login, r2, helpers, site, redis, thread, vote, store, nextId, clock, ticks, req>>

\* deleteSection: Article.updateMany({ section_slug }, ...) leaves the
\* section_id of the Articles
DeleteSection(slug) ==
  /\ HasSections /\ Quiet
  /\ IF ~SectionExists(slug)
     THEN /\ sections' = [sections EXCEPT !.last = NoAnswer]
          /\ UNCHANGED <<cache, store>>
     ELSE LET i == SectionIndex(sections, slug) IN
          /\ store' = [a \in DOMAIN store |->
                         IF store[a].section_slug = slug
                         THEN [store[a] EXCEPT !.has_section = FALSE,
                                               !.section_slug = NullSlug,
                                               !.section_name = ""]
                         ELSE store[a]]
          /\ sections' =
               [sections EXCEPT
                  !.docs = SubSeq(@, 1, i - 1) \o SubSeq(@, i + 1, Len(@)),
                  !.last = NoAnswer]
          /\ cache' = DeleteByPatterns(cache, SectionPatterns(slug))
  /\ UNCHANGED <<admin, login, r2, helpers, site, redis, thread, vote, nextId, clock, ticks, req>>

\* toggleActiveStatus: section.isActive = !section.isActive, then save(),
\* whose pre('save') derives isActive again
ToggleActiveStatus(slug) ==
  /\ HasSections /\ Quiet
  /\ IF ~SectionExists(slug)
     THEN /\ sections' = [sections EXCEPT !.last = NoAnswer]
          /\ UNCHANGED cache
     ELSE LET i == SectionIndex(sections, slug)
              doc == SectionPreSave([sections.docs[i] EXCEPT !.isActive = ~@],
                                    clock)
          IN  /\ sections' =
                   [sections EXCEPT !.docs[i] = doc,
                      !.last = NoAnswer]
              /\ cache' = DeleteByPatterns(cache, SectionPatterns(slug))
  /\ UNCHANGED <<admin, login, r2, helpers, site, redis, thread, vote, store, nextId, clock, ticks, req>>

\* extendExpiration of one day.  section.extendExpiration(days) sets a new
\* Date when there is none, then moves the Date in place with setDate:
\* a Date changed in place is not marked modified, so save() stores the new
\* expires_at only when there was none, and the isActive that pre('save')
\* derives from the Date in memory
ExtendExpiration(slug) ==
  /\ HasSections /\ Quiet
  /\ IF ~SectionExists(slug)
     THEN /\ sections' = [sections EXCEPT !.last = NoAnswer]
          /\ UNCHANGED cache
     ELSE LET i == SectionIndex(sections, slug)
              old == sections.docs[i]
              inMemory == IF old.expires_at = Null THEN clock + Day
                          ELSE old.expires_at + Day
              doc == [old EXCEPT
                        !.expires_at = IF @ = Null THEN inMemory ELSE @,
                        !.isActive = inMemory > clock]
          IN  /\ sections' =
                   [sections EXCEPT !.docs[i] = doc,
                      !.last = NoAnswer]
              /\ cache' = DeleteByPatterns(cache, SectionPatterns(slug))
  /\ UNCHANGED <<admin, login, r2, helpers, site, redis, thread, vote, store, nextId, clock, ticks, req>>

\* a recount that leaves the stored count
KeptCount(d, articlesCount) == d

\* section.articles_count = articlesCount of updateSectionArticlesCount
Recounted(d, articlesCount) == [d EXCEPT !.articles_count = articlesCount]

\* updateSectionArticlesCount(slug), called by the incrementArticlesCount
\* and decrementArticlesCount handlers, which answer what it returns
UpdateSectionArticlesCount(slug) ==
  /\ HasSections /\ Quiet
  /\ IF ~SectionExists(slug)
     THEN /\ sections' = [sections EXCEPT !.last = Answer("recount", slug, 200)]
          /\ UNCHANGED cache
     ELSE LET i == SectionIndex(sections, slug)
              articlesCount == CountDocuments(store, slug)
              saved == SaveSection(sections, i,
                         Recounted(sections.docs[i], articlesCount), clock)
          IN  /\ sections' =
                   [saved EXCEPT
                      !.last = [Answer("recount", slug, 200) EXCEPT
                                  !.count = articlesCount,
                                  !.before = sections.docs[i].articles_count]]
              /\ cache' = DeleteByPatterns(cache, SectionPatterns(slug))
  /\ UNCHANGED <<admin, login, r2, helpers, site, redis, thread, vote, store, nextId, clock, ticks, req>>

\* getSectionBySlug: the cached object if there is one; otherwise
\* Section.findBySlug (active Sections only), the count of the Articles,
\* a save when the stored count differs, and setCache
GetSectionBySlug(slug) ==
  LET key == KeyOfSection(slug)
      i == SectionIndex(sections, slug) IN
  /\ HasSections /\ Quiet
  /\ IF CacheHit(cache, key, clock)
     THEN /\ sections' =
               [sections EXCEPT
                  !.last = [Answer("get", slug, 200) EXCEPT
                              !.count = cache[key].val.articles_count,
                              !.cached = TRUE]]
          /\ UNCHANGED cache
     ELSE IF i = 0 \/ ~sections.docs[i].isActive
     THEN /\ sections' = [sections EXCEPT !.last = Answer("get", slug, 404)]
          /\ UNCHANGED cache
     ELSE LET articlesCount == CountDocuments(store, slug)
              differs == sections.docs[i].articles_count # articlesCount
              saved == IF differs
                       THEN SaveSection(sections, i,
                              Recounted(sections.docs[i], articlesCount), clock)
                       ELSE sections
              cleared == IF differs
                         THEN DeleteByPatterns(cache, SectionPatterns(slug))
                         ELSE cache
          IN  /\ sections' =
                   [saved EXCEPT
                      !.last = [Answer("get", slug, 200) EXCEPT
                                  !.count = articlesCount]]
              /\ cache' = SetCache(cleared, key, saved.docs[i], SectionTtl, clock)
  /\ UNCHANGED <<admin, login, r2, helpers, site, redis, thread, vote, store, nextId, clock, ticks, req>>

\* pre('save') of the ghanapolitan Article on its section fields
ArticlePreSave(d) ==
  IF d.section_name # ""
  THEN [d EXCEPT !.has_section = TRUE]
  ELSE [d EXCEPT !.has_section = FALSE, !.section_id = NullSlug,
                 !.section_slug = NullSlug]

\* assignArticleToSection.  full: the body carries section_name and
\* section_slug beside section_id; otherwise they are those of the Section
\* found.  `section` is read before the Article is saved and saved last.
AssignArticleToSection(id, target, full) ==
  LET i == FindBySectionId(sections, target)
      section == sections.docs[i]
      oldSectionId == store[id].section_id
      doc == ArticlePreSave(
               [store[id] EXCEPT
                  !.section_id = target,
                  !.section_name = IF full THEN target ELSE section.slug,
                  !.section_slug = IF full THEN target ELSE section.slug,
                  !.has_section = TRUE])
      decremented == DecrementOld(sections, oldSectionId, clock)
      saved == SaveSection(decremented, i, IncrementArticlesCount(section),
                           clock) IN
  /\ HasSections /\ Quiet
  /\ CountsBelowMax
  /\ IF id \notin DOMAIN store \/ i = 0
     THEN /\ sections' =
               [sections EXCEPT
                  !.last = NoAnswer]
          /\ UNCHANGED <<store, cache>>
     ELSE /\ store' = [store EXCEPT ![id] = Stamp(store[id], doc, clock)]
          /\ sections' =
               [saved EXCEPT
                  !.last = NoAnswer]
          /\ cache' = DeleteByPatterns(cache, InvalidatePatterns(doc.slug))
  /\ UNCHANGED <<admin, login, r2, helpers, site, redis, thread, vote, nextId, clock, ticks, req>>

\* removeArticleFromSection
RemoveArticleFromSection(id) ==
  /\ HasSections /\ Quiet
  /\ IF id \notin DOMAIN store
     THEN /\ sections' =
               [sections EXCEPT
                  !.last = NoAnswer]
          /\ UNCHANGED <<store, cache>>
     ELSE IF store[id].section_id = NullSlug
     THEN /\ sections' =
               [sections EXCEPT
                  !.last = NoAnswer]
          /\ UNCHANGED <<store, cache>>
     ELSE LET doc == [store[id] EXCEPT !.section_id = NullSlug,
                                       !.section_name = "",
                                       !.section_slug = NullSlug,
                                       !.has_section = FALSE] IN
          /\ store' = [store EXCEPT ![id] = doc]
          /\ sections' =
               [DecrementOld(sections, store[id].section_id, clock) EXCEPT
                  !.last = NoAnswer]
          /\ cache' = DeleteByPatterns(cache, InvalidatePatterns(doc.slug))
  /\ UNCHANGED <<admin, login, r2, helpers, site, redis, thread, vote, nextId, clock, ticks, req>>

(***************************************************************************)
(* addComment, addReply and the four vote handlers (ghanapolitan).  save() *)
(* of a document whose array subdocuments changed matches on __v and       *)
(* increments it: a save made on a stale read throws VersionError.         *)
(***************************************************************************)
HasComments == site = "ghanapolitan"

\* invalidateArticleCache(slug) and deleteCacheByPattern(`comments:${slug}:*`)
CommentPatterns ==
  InvalidatePatterns(SlugOf(Commented))
    \cup {Glob(<<"comments", SlugOf(Commented)>>)}

\* addComment and addReply, each run without interruption
AddItem(target) ==
  /\ HasComments
  /\ Commented \in DOMAIN store
  /\ ~store[Commented].isLive
  /\ thread.v < MaxVersion
  /\ target \notin DOMAIN thread.items
  /\ target = "reply" => "comment" \in DOMAIN thread.items
  /\ thread' = [thread EXCEPT
       !.v = @ + 1,
       !.items = [t \in DOMAIN @ \cup {target} |->
                    IF t = target THEN NewItem ELSE @[t]]]
  /\ cache' = DeleteByPatterns(cache, CommentPatterns)
  /\ UNCHANGED <<admin, login, r2, helpers, sections, site, redis, vote, store, nextId, clock, ticks, req>>

AddComment == AddItem("comment")
AddReply == AddItem("reply")

\* the slots of the vote requests: two of them in flight at most
VoteSlots == {1, 2}

VoteIdle(s) == vote[s].pc \in {"idle", "done"}

VoteArrive(s, op, target) ==
  /\ HasComments
  /\ VoteIdle(s)
  /\ thread.v < MaxVersion
  /\ \E voter \in Voters :
       vote' = [vote EXCEPT ![s] =
         [IdleVote EXCEPT !.pc = "find", !.op = op, !.target = target,
                          !.voter = voter]]
  /\ UNCHANGED <<admin, login, r2, helpers, sections, site, redis, thread, store, nextId, cache, clock, ticks, req>>

UpvoteComment(s) == VoteArrive(s, "up", "comment")
DownvoteComment(s) == VoteArrive(s, "down", "comment")
UpvoteReply(s) == VoteArrive(s, "up", "reply")
DownvoteReply(s) == VoteArrive(s, "down", "reply")

\* the answer is sent: what stays is its status
VoteDone(r, status) == [IdleVote EXCEPT !.pc = "done", !.status = status]

\* await Article.findOne({ slug }) and the method call on the document read;
\* of the document the request keeps its __v and the subdocument it changes,
\* the one path save() will write
VoteFind(s) ==
  LET r == vote[s] IN
  /\ r.pc = "find"
  /\ vote' = [vote EXCEPT ![s] =
       IF Commented \notin DOMAIN store \/ r.target \notin DOMAIN thread.items
       THEN VoteDone(r, 404)
       ELSE [r EXCEPT
               !.pc = "save", !.v = thread.v,
               !.live = store[Commented].isLive,
               !.before = thread.items[r.target],
               !.item = IF r.op = "up"
                        THEN Upvoted(thread.items[r.target], r.voter)
                        ELSE Downvoted(thread.items[r.target], r.voter)]]
  /\ UNCHANGED <<admin, login, r2, helpers, sections, site, redis, thread, store, nextId, cache, clock, ticks, req>>

\* await article.save(); pre('save') empties the comments of a document
\* read with isLive
VoteSave(s) ==
  LET r == vote[s] IN
  /\ r.pc = "save"
  /\ IF Commented \in DOMAIN store /\ thread.v = r.v
     THEN /\ thread' = IF r.live THEN [NoThread EXCEPT !.v = thread.v + 1]
                        ELSE [thread EXCEPT
               !.v = @ + 1,
               !.items[r.target] = r.item,
               !.last = [op |-> r.op, target |-> r.target, voter |-> r.voter,
                         before |-> r.before,
                         again |-> /\ thread.last.op = r.op
                                   /\ thread.last.target = r.target
                                   /\ thread.last.voter = r.voter,
                         switch |-> /\ thread.last.op = "up" /\ r.op = "down"
                                    /\ thread.last.target = r.target
                                    /\ thread.last.voter = r.voter
                                    /\ ~Includes(thread.last.before.upvotedBy,
                                                 r.voter)]]
          /\ vote' = [vote EXCEPT ![s] = [r EXCEPT !.pc = "invalidate"]]
     ELSE /\ vote' = [vote EXCEPT ![s] = VoteDone(r, 500)]
          /\ UNCHANGED thread
  /\ UNCHANGED <<admin, login, r2, helpers, sections, site, redis, store, nextId, cache, clock, ticks, req>>

\* the two invalidations, and the answer
VoteInvalidate(s) ==
  LET r == vote[s] IN
  /\ r.pc = "invalidate"
  /\ cache' = DeleteByPatterns(cache, CommentPatterns)
  /\ vote' = [vote EXCEPT ![s] = VoteDone(r, IF r.op = "add" THEN 201 ELSE 200)]
  /\ UNCHANGED <<admin, login, r2, helpers, sections, site, redis, thread, store, nextId, clock, ticks, req>>

\* addComment and addReply as requests in flight: one comment and one reply
\* at most, so none arrives while the same is being added
AddArrive(s, target) ==
  /\ HasComments
  /\ VoteIdle(s)
  /\ thread.v < MaxVersion
  /\ target \notin DOMAIN thread.items
  /\ \A o \in Slots : vote[o].op = "add" => vote[o].target # target
  /\ vote' = [vote EXCEPT ![s] =
       [IdleVote EXCEPT !.pc = "addFind", !.op = "add", !.target = target]]
  /\ UNCHANGED <<admin, login, r2, helpers, sections, site, redis, thread, store, nextId, cache, clock, ticks, req>>

AddCommentRequest(s) == AddArrive(s, "comment")
AddReplyRequest(s) == AddArrive(s, "reply")

\* await Article.findOne({ slug }), the isLive check and the method call
AddFind(s) ==
  LET r == vote[s] IN
  /\ r.pc = "addFind"
  /\ vote' = [vote EXCEPT ![s] =
       IF Commented \notin DOMAIN store THEN VoteDone(r, 404)
       ELSE IF store[Commented].isLive THEN VoteDone(r, 400)
       ELSE IF r.target = "reply" /\ "comment" \notin DOMAIN thread.items
       THEN VoteDone(r, 404)
       ELSE [r EXCEPT !.pc = "addSave", !.v = thread.v]]
  /\ UNCHANGED <<admin, login, r2, helpers, sections, site, redis, thread, store, nextId, cache, clock, ticks, req>>

\* await article.save(): the push of a comment goes through whatever the
\* document has become; the push of a reply matches on __v
AddSave(s) ==
  LET r == vote[s] IN
  /\ r.pc = "addSave"
  /\ IF Commented \in DOMAIN store /\ (r.target = "comment" \/ thread.v = r.v)
     THEN /\ thread' = [thread EXCEPT
               !.v = @ + 1,
               !.items = [t \in DOMAIN @ \cup {r.target} |->
                            IF t = r.target THEN NewItem ELSE @[t]]]
          /\ vote' = [vote EXCEPT ![s] = [r EXCEPT !.pc = "invalidate"]]
     ELSE /\ vote' = [vote EXCEPT ![s] = VoteDone(r, 500)]
          /\ UNCHANGED thread
  /\ UNCHANGED <<admin, login, r2, helpers, sections, site, redis, store, nextId, cache, clock, ticks, req>>

VoteStep(s) ==
  \/ VoteFind(s)
  \/ VoteSave(s)
  \/ VoteInvalidate(s)

(***************************************************************************)
(* Specifications.                                                         *)
(***************************************************************************)
\* the awaits of createArticle, updateArticle and deleteArticle
WriteStep(s) ==
  \/ FindExisting(s)
  \/ ReconcileTopstories(s)
  \/ ReconcileBreaking(s)
  \/ SaveArticle(s)
  \/ WriteUpdate(s)
  \/ RemoveArticle(s)
  \/ InvalidateArticleCache(s)

\* the awaits a handler makes when it promotes a headline
HeadlineStep(s) ==
  \/ DemoteHeadlines(s)
  \/ DemoteInvalidate(s)
  \/ CacheHeadline(s)

\* the awaits of a cache-aside read
ReadStep(s) ==
  \/ GetCache(s)
  \/ FindDoc(s)
  \/ CacheSet(s)

\* Spec: concurrent writes whose bodies mention no flag but isHeadline
Next ==
  \/ \E s \in Slots : CreateArticle(s, HeadlineBodies)
  \/ \E s \in Slots : UpdateArticle(s, HeadlineBodies)
  \/ \E s \in Slots : DeleteArticle(s)
  \/ \E s \in Slots : WriteStep(s)
  \/ \E s \in Slots : HeadlineStep(s)

Spec == Init /\ [][Next]_vars

\* SeqSpec: one write at a time, the clock standing still, so that bodies
\* mentioning isBreaking or isTopstory add nothing
SeqNext ==
  \/ CreateArticle(1, PlainBodies)
  \/ UpdateArticle(1, PlainBodies)
  \/ DeleteArticle(1)
  \/ WriteStep(1)
  \/ HeadlineStep(1)

SeqSpec == Init /\ [][SeqNext]_vars

\* BreakingSpec: one request at a time, reads, and writes whose bodies
\* mention no flag but isBreaking, with the clock
BreakingNext ==
  \/ CreateArticle(1, BreakingBodies)
  \/ UpdateArticle(1, BreakingBodies)
  \/ DeleteArticle(1)
  \/ GetArticleById(1)
  \/ GetArticleBySlug(1)
  \/ WriteStep(1)
  \/ ReconcileBreakingInvalidate(1)
  \/ ReadStep(1)
  \/ Tick({1, BreakingWindow})

BreakingSpec == Init /\ [][BreakingNext]_vars

\* TopstorySpec: one request at a time, reads by slug, and writes whose
\* bodies mention no flag but isTopstory, with the clock and the hourly job
TopstoryNext ==
  \/ CreateArticle(1, TopstoryBodies)
  \/ UpdateArticle(1, TopstoryBodies)
  \/ DeleteArticle(1)
  \/ GetArticleBySlug(1)
  \/ WriteStep(1)
  \/ ReconcileTopstoriesInvalidate(1)
  \/ ReadStep(1)
  \/ ExpireTopstoryOnRead(1)
  \/ ExpireTopstoryInvalidate(1)
  \/ Tick({1, TopstoryWindow})
  \/ CronJob

TopstorySpec == Init /\ [][TopstoryNext]_vars

\* FairSpec: articles that are written and never read, on the site whose
\* model has the static the job calls.  The scheduler runs the hourly job
\* again and again, and a handler runs on to its answer.
FairInit ==
  Init /\ site = "ghanascore"

FairNext ==
  \/ CreateArticle(1, ExpiryBodies)
  \/ UpdateArticle(1, ExpiryBodies)
  \/ DeleteArticle(1)
  \/ WriteStep(1)
  \/ ReconcileTopstoriesInvalidate(1)
  \/ ReconcileBreakingInvalidate(1)
  \/ Tick({1, BreakingWindow, TopstoryWindow})
  \/ CronJob

FairSpec ==
  /\ FairInit
  /\ [][FairNext]_vars
  /\ WF_vars(CronJob)
  /\ WF_vars(WriteStep(1))

\* FormSpec: one write at a time whose body mentions no flag but isBreaking,
\* sent as JSON or as multipart form fields, with the clock
FormNext ==
  \/ CreateArticle(1, BreakingBodies \cup FormBodies)
  \/ UpdateArticle(1, BreakingBodies \cup FormBodies)
  \/ DeleteArticle(1)
  \/ WriteStep(1)
  \/ ReconcileBreakingInvalidate(1)
  \/ Tick({1, BreakingWindow})

FormSpec == Init /\ [][FormNext]_vars

\* the awaits of a cached listing
ListStep(s) ==
  \/ ListCacheGet(s)
  \/ ListFind(s)
  \/ ListSet(s)

\* the awaits of createArticle
CreateStep(s) ==
  \/ ReconcileTopstories(s)
  \/ ReconcileBreaking(s)
  \/ SaveArticle(s)
  \/ InvalidateArticleCache(s)

\* ListingSpec: one request at a time, listings, creates whose bodies mention
\* no flag but isTopstory, the clock and the hourly job
ListingNext ==
  \/ CreateArticle(1, TopstoryBodies)
  \/ CreateStep(1)
  \/ ReconcileTopstoriesInvalidate(1)
  \/ GetAllArticles(1)
  \/ GetTopStories(1)
  \/ ListStep(1)
  \/ Tick({1, TopstoryWindow})
  \/ CronJob

ListingSpec == Init /\ [][ListingNext]_vars

\* FailSpec: one request at a time, reads by id and by slug and writes whose
\* bodies mention no flag, Redis failing at some point
FailNext ==
  \/ CreateArticle(1, {NoBody})
  \/ UpdateArticle(1, {NoBody})
  \/ DeleteArticle(1)
  \/ WriteStep(1)
  \/ GetArticleById(1)
  \/ GetArticleBySlug(1)
  \/ ReadStep(1)
  \/ RedisFails

FailSpec == Init /\ [][FailNext]_vars

\* VoteSpec: ghanapolitan, one Article written at a time, its comment and
\* reply, and two concurrent votes on them
VoteNext ==
  \/ CreateArticle(1, {NoBody})
  \/ SaveArticle(1)
  \/ AddComment
  \/ AddReply
  \/ \E s \in VoteSlots : UpvoteComment(s)
  \/ \E s \in VoteSlots : DownvoteComment(s)
  \/ \E s \in VoteSlots : UpvoteReply(s)
  \/ \E s \in VoteSlots : DownvoteReply(s)
  \/ \E s \in VoteSlots : VoteStep(s)

VoteInit == Init /\ site = "ghanapolitan"

VoteSpec == VoteInit /\ [][VoteNext]_vars

\* bodies of an update that sets or clears isLive and sends nothing else
LiveFlagBodies ==
  {b \in LiveBodies : b.isLive # "absent" /\ b.wasLive = "absent" /\ b.content = "absent"}

\* CommentSpec: ghanapolitan, an Article, updates of its isLive, and the
\* requests that add its comment and its reply, in flight with them
CommentNext ==
  \/ CreateArticle(1, {NoBody})
  \/ SaveArticle(1)
  \/ UpdateArticle(1, LiveFlagBodies)
  \/ FindExisting(1)
  \/ ReconcileTopstories(1)
  \/ ReconcileBreaking(1)
  \/ WriteUpdate(1)
  \/ InvalidateArticleCache(1)
  \/ \E s \in VoteSlots : AddCommentRequest(s)
  \/ \E s \in VoteSlots : AddReplyRequest(s)
  \/ \E s \in VoteSlots : AddFind(s)
  \/ \E s \in VoteSlots : AddSave(s)
  \/ \E s \in VoteSlots : VoteInvalidate(s)

CommentSpec == VoteInit /\ [][CommentNext]_vars

\* LiveSpec: the sites whose Articles have isLive, one write at a time whose
\* body mentions isLive, wasLive and content only
LiveNext ==
  \/ CreateArticle(1, LiveCreateBodies)
  \/ UpdateArticle(1, LiveBodies)
  \/ DeleteArticle(1)
  \/ WriteStep(1)

LiveInit == Init /\ HasLiveField

LiveSpec == LiveInit /\ [][LiveNext]_vars

\* bodies that mention the section fields only
SectionBodies ==
  {[NoBody EXCEPT !.section = x] : x \in {"absent", "none"} \cup SectionSlugs}

\* no Article was created yet
OneArticle == nextId = 1 /\ PendingCreates = {}

\* SectionSpec: ghanapolitan, its Sections, which never expire, and one
\* Article assigned to them, one request at a time
SectionNext ==
  \/ (OneArticle /\ CreateArticle(1, SectionBodies))
  \/ UpdateArticle(1, SectionBodies)
  \/ DeleteArticle(1)
  \/ SaveArticle(1)
  \/ FindExisting(1)
  \/ ReconcileTopstories(1)
  \/ ReconcileBreaking(1)
  \/ WriteUpdate(1)
  \/ RemoveArticle(1)
  \/ InvalidateArticleCache(1)
  \/ \E x \in SectionSlugs : CreateSection(x, {Null})
  \/ \E x \in SectionSlugs : DeleteSection(x)
  \/ \E x \in SectionSlugs : UpdateSectionArticlesCount(x)
  \/ \E x \in SectionSlugs : GetSectionBySlug(x)
  \/ \E id \in Ids, x \in SectionSlugs, full \in BOOLEAN :
       AssignArticleToSection(id, x, full)
  \/ \E id \in Ids : RemoveArticleFromSection(id)

SectionInit == Init /\ HasSections

SectionSpec == SectionInit /\ [][SectionNext]_vars

\* CountSpec: ghanapolitan, its Sections, the creation and the deletion of
\* one Article, the reads of a Section by slug, and the clock
CountNext ==
  \/ (OneArticle /\ CreateArticle(1, SectionBodies))
  \/ SaveArticle(1)
  \/ DeleteArticle(1)
  \/ FindExisting(1)
  \/ RemoveArticle(1)
  \/ InvalidateArticleCache(1)
  \/ \E x \in SectionSlugs : CreateSection(x, {Null})
  \/ \E x \in SectionSlugs : GetSectionBySlug(x)
  \/ Tick({1, SectionTtl})

CountSpec == SectionInit /\ [][CountNext]_vars

\* ActiveSpec: ghanapolitan, the writes of its Sections, with or without an
\* expires_at, and the clock
ActiveNext ==
  \/ \E x \in SectionSlugs : CreateSection(x, {Null} \cup SectionExpiries(clock))
  \/ \E x \in SectionSlugs : UpdateSection(x)
  \/ \E x \in SectionSlugs : ToggleActiveStatus(x)
  \/ \E x \in SectionSlugs : ExtendExpiration(x)
  \/ \E x \in SectionSlugs : DeleteSection(x)
  \/ Tick({1, Day})

ActiveSpec == SectionInit /\ [][ActiveNext]_vars

\* JSON bodies that mention no flag but isHeadline, with a title
TitleBodies ==
  {[NoBody EXCEPT !.isHeadline = h, !.title = t] : h \in Tri, t \in {0} \cup Ids}

\* TitleSpec: the sites whose slug is the title's, one create or update at a
\* time, whose title may be the one of a stored Article
TitleNext ==
  \/ CreateArticle(1, TitleBodies)
  \/ UpdateArticle(1, TitleBodies)
  \/ DeleteArticle(1)
  \/ WriteStep(1)
  \/ HeadlineStep(1)

TitleInit == Init /\ site # "ghanapolitan"

TitleSpec == TitleInit /\ [][TitleNext]_vars

\* ExpirySpec: one write at a time whose body mentions isBreaking and
\* isTopstory only, with the clock: the passes of the reconciler on every site
ExpiryNext ==
  \/ CreateArticle(1, ExpiryBodies)
  \/ UpdateArticle(1, ExpiryBodies)
  \/ DeleteArticle(1)
  \/ WriteStep(1)
  \/ ReconcileTopstoriesInvalidate(1)
  \/ ReconcileBreakingInvalidate(1)
  \/ Tick({1, BreakingWindow, TopstoryWindow})

ExpirySpec == Init /\ [][ExpiryNext]_vars

(***************************************************************************)
(* The awaits of getHeadline.                                              *)
(***************************************************************************)
Tags == {"politics"}

\* `${SITE_PREFIX}:headline:current`, 'headline:current' on ghanapolitan
KeyOfHeadline == SitePrefix \o <<"headline", "current">>

\* Article.findOne({ isHeadline: true }).sort({ published_at: -1 })
NewestHeadline(st) ==
  LET hs == {i \in DOMAIN st : st[i].isHeadline}
  IN  IF hs = {} THEN 0 ELSE Head(NewestFirst(hs))

\* Article.find({ _id: { $ne: headline._id }, tags: { $in: headline.tags },
\* isHeadline: false }).sort({ published_at: -1 }).limit(3)
SimilarArticles(st, headline) ==
  LET ids == NewestFirst({i \in DOMAIN st :
                            /\ i # headline.id
                            /\ headline.tags # "" /\ st[i].tags = headline.tags
                            /\ ~st[i].isHeadline})
      top == SubSeq(ids, 1, IF Len(ids) < 3 THEN Len(ids) ELSE 3)
  IN  [n \in 1 .. Len(top) |-> ToObject(st[top[n]])]

\* what getHeadline answers from the store: 0 for its 404
HeadlineData(st) ==
  LET h == NewestHeadline(st)
  IN  IF h = 0 THEN [headline |-> NoDoc, similarArticles |-> <<>>]
      ELSE [headline |-> ToObject(st[h]),
            similarArticles |-> SimilarArticles(st, ToObject(st[h]))]

GetHeadline(s) ==
  /\ Idle(s)
  /\ Arrive(s, [IdleReq EXCEPT !.pc = "headlineCache", !.kind = "headline"])
  /\ UNCHANGED <<admin, login, r2, helpers, sections, site, redis, thread, vote, store, nextId, cache, clock, ticks>>

\* the answer of getHeadline: the headline and its similar articles
HeadlineAnswer(r, data, cached) ==
  [Done([r EXCEPT !.article = data.headline, !.cached = cached], 200)
     EXCEPT !.list = [NoList EXCEPT !.articles = data.similarArticles]]

\* await getCache(cacheKey): a hit is answered at once
GetCachedHeadline(s) ==
  LET r == req[s] IN
  /\ r.pc = "headlineCache"
  /\ req' = [req EXCEPT ![s] =
       IF CacheHit(cache, KeyOfHeadline, clock)
       THEN HeadlineAnswer(r, cache[KeyOfHeadline].val, TRUE)
       ELSE [r EXCEPT !.pc = IF Reconciles THEN "recTop" ELSE "findHeadline"]]
  /\ UNCHANGED <<admin, login, r2, helpers, sections, site, redis, thread, vote, store, nextId, cache, clock, ticks>>

\* await Article.findOne({ isHeadline: true }).sort(...): 404 without one
FindHeadline(s) ==
  LET r == req[s]
      h == NewestHeadline(store) IN
  /\ r.pc = "findHeadline"
  /\ req' = [req EXCEPT ![s] =
       IF h = 0 THEN Done(r, 404)
       ELSE [r EXCEPT !.id = h, !.article = ToObject(store[h]),
                      !.pc = "findSimilar"]]
  /\ UNCHANGED <<admin, login, r2, helpers, sections, site, redis, thread, vote, store, nextId, cache, clock, ticks>>

\* await Article.find({ ..., tags: { $in: headline.tags || [] }, ... })
FindSimilar(s) ==
  LET r == req[s] IN
  /\ r.pc = "findSimilar"
  /\ req' = [req EXCEPT ![s] =
       [r EXCEPT !.list = [NoList EXCEPT !.articles =
                             SimilarArticles(store, r.article)],
                 !.pc = "headlineSet"]]
  /\ UNCHANGED <<admin, login, r2, helpers, sections, site, redis, thread, vote, store, nextId, cache, clock, ticks>>

\* await setCache(cacheKey, responseData, null), then the answer
SetHeadlineCache(s) ==
  LET r == req[s]
      data == [headline |-> r.article, similarArticles |-> r.list.articles] IN
  /\ r.pc = "headlineSet"
  /\ cache' = SetCache(cache, KeyOfHeadline, data, Null, clock)
  /\ req' = [req EXCEPT ![s] = HeadlineAnswer(r, data, FALSE)]
  /\ UNCHANGED <<admin, login, r2, helpers, sections, site, redis, thread, vote, store, nextId, clock, ticks>>

\* the awaits of getHeadline after its reconcile passes
HeadlineReadStep(s) ==
  \/ GetCachedHeadline(s)
  \/ FindHeadline(s)
  \/ FindSimilar(s)
  \/ SetHeadlineCache(s)

\* JSON bodies that mention nothing but isHeadline, if that
HeadlineOnlyBodies == {[NoBody EXCEPT !.isHeadline = v] : v \in Tri}

\* HeadlineReadSpec: ghanapolitan, reads of the current headline concurrent
\* with creates, updates and deletes
HeadlineReadNext ==
  \/ \E s \in Slots : CreateArticle(s, HeadlineOnlyBodies)
  \/ \E s \in Slots : UpdateArticle(s, HeadlineOnlyBodies)
  \/ \E s \in Slots : DeleteArticle(s)
  \/ \E s \in Slots : GetHeadline(s)
  \/ \E s \in Slots : WriteStep(s)
  \/ \E s \in Slots : HeadlineStep(s)
  \/ \E s \in Slots : HeadlineReadStep(s)

HeadlineReadInit == Init /\ site = "ghanapolitan"

HeadlineReadSpec == HeadlineReadInit /\ [][HeadlineReadNext]_vars

\* JSON bodies that mention isHeadline and a tag, or neither
TagBodies ==
  {[NoBody EXCEPT !.isHeadline = v, !.tags = t] :
     v \in Tri, t \in {"absent"} \cup Tags}

\* SimilarSpec: ghanapolitan, one request at a time: reads of the current
\* headline and writes whose bodies mention isHeadline and tags
SimilarNext ==
  \/ CreateArticle(1, TagBodies)
  \/ UpdateArticle(1, TagBodies)
  \/ DeleteArticle(1)
  \/ GetHeadline(1)
  \/ WriteStep(1)
  \/ HeadlineStep(1)
  \/ HeadlineReadStep(1)

SimilarSpec == HeadlineReadInit /\ [][SimilarNext]_vars

\* the awaits of the replacement of an image
ImageStep(s) ==
  \/ DeleteImage(s)
  \/ UploadImage(s)

\* multipart bodies of an update that carry an image file
ImageBodies ==
  {[NoBody EXCEPT !.image = TRUE, !.form = TRUE, !.hasLivescore = h] :
     h \in BOOLEAN}

\* ImageSpec: one request at a time: creates without an image, updates that
\* bring one, and deletes, with an R2 that can fail
ImageNext ==
  \/ CreateArticle(1, {NoBody})
  \/ UpdateArticle(1, ImageBodies)
  \/ DeleteArticle(1)
  \/ WriteStep(1)
  \/ ImageStep(1)

ImageSpec == Init /\ [][ImageNext]_vars

(***************************************************************************)
(* Admin login: the awaits of exports.login and the methods of the Admin   *)
(* model it calls.                                                         *)
(***************************************************************************)
LockWindow == 2 * 60 * 60
LockAfter == 5

\* adminSchema.methods.isLocked, on the document as read, at the moment now
IsLocked(lockUntil, now) == lockUntil # Null /\ lockUntil > now

\* within two hours of the fifth failed attempt
WithinLockWindow ==
  /\ admin.failed >= LockAfter
  /\ admin.fifthAt # Null /\ clock < admin.fifthAt + LockWindow

LoginIdle(s) == login[s].pc \in {"idle", "done"}

Login(s) ==
  /\ LoginIdle(s)
  /\ admin.failed < MaxFailed
  /\ \E valid \in BOOLEAN :
       login' = [login EXCEPT ![s] =
         [IdleLogin EXCEPT !.pc = "find", !.valid = valid,
                           !.afterFifth = WithinLockWindow]]
  /\ UNCHANGED <<admin, r2, helpers, sections, site, redis, thread, vote, store,
                 nextId, cache, clock, ticks, req>>

LoginDone(r, status) == [r EXCEPT !.pc = "done", !.status = status]

\* await Admin.findOne({ email }).select(...), then admin.isLocked(): 423
FindAdmin(s) ==
  LET r == login[s] IN
  /\ r.pc = "find"
  /\ login' = [login EXCEPT ![s] =
       IF IsLocked(admin.lockUntil, clock) THEN LoginDone(r, 423)
       ELSE [r EXCEPT !.loginAttempts = admin.loginAttempts,
                      !.lockUntil = admin.lockUntil, !.pc = "compare"]]
  /\ UNCHANGED <<admin, r2, helpers, sections, site, redis, thread, vote, store,
                 nextId, cache, clock, ticks, req>>

\* await admin.isValidPassword(password)
IsValidPassword(s) ==
  LET r == login[s] IN
  /\ r.pc = "compare"
  /\ login' = [login EXCEPT ![s] =
       [r EXCEPT !.checked = TRUE,
                 !.pc = IF r.valid THEN "reset" ELSE "increment"]]
  /\ UNCHANGED <<admin, r2, helpers, sections, site, redis, thread, vote, store,
                 nextId, cache, clock, ticks, req>>

\* adminSchema.methods.incrementLoginAttempts on the document as read: the
\* update it sends
Incremented(a, r, now) ==
  IF r.lockUntil # Null /\ r.lockUntil < now
  THEN [a EXCEPT !.loginAttempts = 1, !.lockUntil = Null]
  ELSE [a EXCEPT
          !.loginAttempts = @ + 1,
          !.lockUntil = IF /\ r.loginAttempts + 1 >= LockAfter
                           /\ ~IsLocked(r.lockUntil, now)
                        THEN now + LockWindow ELSE @]

\* await admin.incrementLoginAttempts(), then the 401
IncrementLoginAttempts(s) ==
  LET r == login[s]
      a == Incremented(admin, r, clock) IN
  /\ r.pc = "increment"
  /\ admin' = [a EXCEPT !.failed = @ + 1,
                        !.fifthAt = IF admin.failed + 1 = LockAfter
                                    THEN clock ELSE @]
  /\ login' = [login EXCEPT ![s] = LoginDone(r, 401)]
  /\ UNCHANGED <<r2, helpers, sections, site, redis, thread, vote, store,
                 nextId, cache, clock, ticks, req>>

\* await admin.resetLoginAttempts(): $unset of loginAttempts and lockUntil
ResetLoginAttempts(s) ==
  LET r == login[s] IN
  /\ r.pc = "reset"
  /\ admin' = NoAdmin
  /\ login' = [login EXCEPT ![s] = [r EXCEPT !.pc = "save"]]
  /\ UNCHANGED <<r2, helpers, sections, site, redis, thread, vote, store,
                 nextId, cache, clock, ticks, req>>

\* admin.lastLogin = Date.now(); await admin.save(...); the tokens; the 200
SaveLastLogin(s) ==
  LET r == login[s] IN
  /\ r.pc = "save"
  /\ login' = [login EXCEPT ![s] = LoginDone(r, 200)]
  /\ UNCHANGED <<admin, r2, helpers, sections, site, redis, thread, vote, store,
                 nextId, cache, clock, ticks, req>>

\* the awaits of login
LoginStep(s) ==
  \/ FindAdmin(s)
  \/ IsValidPassword(s)
  \/ IncrementLoginAttempts(s)
  \/ ResetLoginAttempts(s)
  \/ SaveLastLogin(s)

\* time passes between logins
LoginTick == (\A s \in LoginSlots : LoginIdle(s)) /\ Tick({1, LockWindow})

\* LoginSpec: logins on one account, two at a time, with the clock
LoginNext ==
  \/ \E s \in LoginSlots : Login(s)
  \/ \E s \in LoginSlots : LoginStep(s)
  \/ LoginTick

LoginInit == Init /\ site = "ghanascore"

LoginSpec == LoginInit /\ [][LoginNext]_vars

(***************************************************************************)
(* generateSlug of src/utils/helpers.js.  A title is a sequence of         *)
(* characters; each replace of the chain is one operator.                  *)
(***************************************************************************)
MaxTitle == 3

\* the characters titles are drawn from: a lower-case and an upper-case
\* letter, the underscore, the space, the hyphen and a punctuation mark
Chars == {"a", "A", "_", " ", "-", "!"}

Titles == UNION {[1..n -> Chars] : n \in 0..MaxTitle}

\* \s
Whitespace == {" "}

\* \w, as far as the titles of the model go
WordChars == {"a", "b", "d", "e", "h", "l", "o", "r", "w", "A", "H", "W", "_"}

\* toLowerCase of one character
LowerOf(c) ==
  CASE c = "A" -> "a"
    [] c = "H" -> "h"
    [] c = "W" -> "w"
    [] OTHER -> c

\* title.toString().toLowerCase()
ToLowerCase(t) == [i \in 1..Len(t) |-> LowerOf(t[i])]

\* t without its leading characters of the set S
RECURSIVE DropLeading(_, _)
DropLeading(t, S) ==
  IF t # <<>> /\ Head(t) \in S THEN DropLeading(Tail(t), S) ELSE t

\* replace(/\s+/g, '-'): every maximal run of whitespace becomes one hyphen
RECURSIVE ReplaceWhitespace(_)
ReplaceWhitespace(t) ==
  IF t = <<>> THEN <<>>
  ELSE IF Head(t) \in Whitespace
       THEN <<"-">> \o ReplaceWhitespace(DropLeading(Tail(t), Whitespace))
       ELSE <<Head(t)>> \o ReplaceWhitespace(Tail(t))

\* replace(/[^\w\-]+/g, ''): only word characters and hyphens stay
StripNonWord(t) == SelectSeq(t, LAMBDA c : c \in WordChars \cup {"-"})

\* the chain without its replace of repeated hyphens
KeepHyphens(t) == t

\* replace(/\-\-+/g, '-'): every run of two or more hyphens becomes one
RECURSIVE CollapseHyphens(_)
CollapseHyphens(t) ==
  IF t = <<>> THEN <<>>
  ELSE IF Head(t) = "-"
       THEN <<"-">> \o CollapseHyphens(DropLeading(Tail(t), {"-"}))
       ELSE <<Head(t)>> \o CollapseHyphens(Tail(t))

\* replace(/^-+/, '')
TrimLeading(t) == DropLeading(t, {"-"})

\* replace(/-+$/, '')
RECURSIVE TrimTrailing(_)
TrimTrailing(t) ==
  IF t # <<>> /\ t[Len(t)] = "-" THEN TrimTrailing(SubSeq(t, 1, Len(t) - 1))
  ELSE t

generateSlug(title) ==
  IF title = <<>> THEN <<>>
  ELSE TrimTrailing(TrimLeading(CollapseHyphens(StripNonWord(
         ReplaceWhitespace(ToLowerCase(title))))))

\* the helper is called with the title it was given
GenerateSlug ==
  /\ ~helpers.done
  /\ helpers' = [helpers EXCEPT !.slug = generateSlug(helpers.title),
                                !.done = TRUE]
  /\ UNCHANGED <<admin, login, r2, sections, site, redis, thread, vote, store, nextId, cache,
                 clock, ticks, req>>

\* SlugSpec: every title of the bound, given to the helper
SlugInit == Started /\ helpers \in [title : Titles, slug : {<<>>}, done : {FALSE}]

SlugNext == GenerateSlug

SlugSpec == SlugInit /\ [][SlugNext]_vars

(***************************************************************************)
(* Properties.                                                             *)
(***************************************************************************)
\* the request in slot s is an update that asked for the headline and was
\* answered 200
PromotedOk(s) ==
  /\ req[s].pc = "done" /\ req[s].kind = "update" /\ req[s].status = 200
  /\ req[s].body.isHeadline = "true"

\* the step answers a read of an article with 200
ReadAnswered(s) ==
  /\ req[s].pc # "done" /\ req'[s].pc = "done"
  /\ req'[s].kind \in {"getById", "getBySlug"}
  /\ req'[s].status = 200

\* C1: at most one Article of the site has isHeadline = true, in every state
\* reached by create, update and delete requests run one after the other.
C1_AtMostOneHeadline == Cardinality(Headlines) <= 1

\* C2: when two updates that each set isHeadline = true on different
\* Articles ran concurrently, each arriving with at most one headline in the
\* store, and both have been answered, at most one Article has
\* isHeadline = true.
C2_ConcurrentPromotions ==
  \A a, b \in Slots :
    ( /\ a # b
      /\ PromotedOk(a) /\ PromotedOk(b)
      /\ req[a].id # req[b].id
      /\ req[a].overlapped /\ req[b].overlapped
      /\ Cardinality(req[a].preHeadlines) <= 1
      /\ Cardinality(req[b].preHeadlines) <= 1 )
    => Cardinality(Headlines) <= 1

\* C3: an update that sets isHeadline = true on Article B, which was not the
\* headline, while another Article A was, run with no other request and
\* answered 200, leaves exactly B with isHeadline = true.
C3_PromotionLeavesOneHeadline ==
  \A s \in Slots :
    ( /\ PromotedOk(s)
      /\ req[s].preHeadlines # {}
      /\ req[s].id \notin req[s].preHeadlines )
    => Headlines = {req[s].id}

\* C3 witness: B was promoted while A was the headline, and B is the only one.
C3_Witness ==
  \E s \in Slots :
    /\ PromotedOk(s)
    /\ \E a \in req[s].preHeadlines : a # req[s].id
    /\ req[s].id \notin req[s].preHeadlines
    /\ Headlines = {req[s].id}

\* C4: every Article with isBreaking = true has a breakingExpiresAt, equal
\* to the time the flag last became true plus 30 minutes.
C4_BreakingHasExpiry ==
  \A i \in DOMAIN store :
    store[i].isBreaking =>
      /\ store[i].breakingExpiresAt # Null
      /\ store[i].breakingExpiresAt = store[i].breakingSince + BreakingWindow

\* C5: right after a pass of updateExpiredBreakingNews no Article has
\* isBreaking = true with a breakingExpiresAt in the past.
C5_ReconcileClearsBreaking ==
  [][(\E s \in Slots : ReconcileBreaking(s))
       => ExpiredBreakingIds(store', clock') = {}]_vars

\* C6: when a read of an Article is answered, the stored Article is not
\* isBreaking = true with a breakingExpiresAt in the past.
C6_ReadReconcilesStore ==
  [][\A s \in Slots :
       ReadAnswered(s) =>
         req'[s].article.id \notin ExpiredBreakingIds(store', clock')]_vars

\* C7: no answer to a fetch by id or by slug shows the Article with
\* isBreaking = true and a breakingExpiresAt in the past.
C7_NoStaleBreakingAnswer ==
  [][\A s \in Slots :
       ReadAnswered(s) =>
         ~ /\ req'[s].article.isBreaking
           /\ req'[s].article.breakingExpiresAt # Null
           /\ req'[s].article.breakingExpiresAt < clock']_vars

\* C8: an Article that is never read and whose breakingExpiresAt
\* (respectively topstoryExpiresAt) has passed eventually has isBreaking
\* (respectively isTopstory) false, the hourly job running again and again.
C8_JobClearsExpired ==
  \A i \in Ids :
    /\ [](i \in ExpiredBreakingIds(store, clock)
            => <>(i \notin DOMAIN store \/ ~store[i].isBreaking))
    /\ [](i \in ExpiredTopstoryIds(store, clock)
            => <>(i \notin DOMAIN store \/ ~store[i].isTopstory))

\* Articles whose top-story window, 48 hours from the moment the flag became
\* true, lies in the past
TopstoryWindowPassed(st, now) ==
  {i \in DOMAIN st : st[i].isTopstory /\ st[i].topstorySince + TopstoryWindow < now}

\* C9: right after a pass of updateExpiredTopstories no Article has
\* isTopstory = true with its 48-hour window in the past.
C9_ReconcileClearsTopstories ==
  [][(\E s \in Slots : ReconcileTopstories(s))
       => TopstoryWindowPassed(store', clock') = {}]_vars

\* C10: on ghanascore an Article has isTopstory = true exactly when its
\* topstoryExpiresAt is set, and then to 48 hours after it became one.
C10_TopstoryIffExpiry ==
  site = "ghanascore" =>
    \A i \in DOMAIN store :
      /\ store[i].isTopstory <=> store[i].topstoryExpiresAt # Null
      /\ store[i].isTopstory =>
           store[i].topstoryExpiresAt = store[i].topstorySince + TopstoryWindow

\* C11: no Article with isBreaking = false carries a breakingExpiresAt,
\* whatever creates, updates and reconcile passes produced the state.
C11_NoExpiryUnlessBreaking ==
  \A i \in DOMAIN store :
    ~store[i].isBreaking => store[i].breakingExpiresAt = Null

\* a reconcile pass of each kind on the store st at the time of the clock
BreakingPass(st) == UpdateExpiredBreakingNews(st, clock)
TopstoryPass(st) == UpdateExpiredTopstories(st, clock)

\* C12: a pass that runs right after another one, nothing written and no
\* expiry crossed in between, leaves the store as the first pass left it and
\* returns 0; so do two passes that overlap, each document being matched and
\* updated in one step.
C12_SecondPassIsNoop ==
  /\ BreakingPass(BreakingPass(store).store).store = BreakingPass(store).store
  /\ BreakingPass(BreakingPass(store).store).count = 0
  /\ TopstoryPass(TopstoryPass(store).store).store = TopstoryPass(store).store
  /\ TopstoryPass(TopstoryPass(store).store).count = 0

\* a pass of updateExpiredTopstories (respectively updateExpiredBreakingNews)
\* that cleared a flag returns with this step
TopstoryPassReturns ==
  \/ \E s \in Slots : ReconcileTopstoriesInvalidate(s)
  \/ CronJob /\ store' # store
BreakingPassReturns == \E s \in Slots : ReconcileBreakingInvalidate(s)

\* C13: when a reconcile pass that cleared a flag returns, the cache holds
\* no entry under the topstories (respectively breaking) namespace nor under
\* the articles namespace of the site.
C13_PassInvalidatesListings ==
  [][/\ TopstoryPassReturns =>
          LiveKeys(cache', Namespaces({<<"topstories">>, <<"articles">>}),
                   clock') = {}
     /\ BreakingPassReturns =>
          LiveKeys(cache', Namespaces({<<"breaking">>, <<"articles">>}),
                   clock') = {}]_vars

\* the step answers a create, an update or a delete with success
WriteAnswered(s) ==
  /\ req[s].pc # "done" /\ req'[s].pc = "done"
  /\ req'[s].kind \in {"create", "update", "delete"}
  /\ req'[s].status \in {200, 201}

\* C14: when a create, an update or a delete of an Article is answered with
\* success, the cache holds no entry stored before the write under the
\* articles listing namespace (every such write changes the listings or their
\* totals) nor under the by-id key of that Article.
C14_WriteInvalidatesReads ==
  [][\A s \in Slots :
       WriteAnswered(s) =>
         LiveKeys(cache',
                  Namespaces({<<"articles">>}) \cup {Exact(KeyById(req'[s].id))},
                  clock') = {}]_vars

\* what a listing asks of the store: the filter, the skip and the limit
StoreQuery(q) == [filter |-> ListFilter(q), page |-> q.page, limit |-> q.limit]

\* C15: a listing answered from the cache is answered from an entry stored
\* for the same store query: two listings whose parameters make different
\* store queries never share a cache key.
C15_ListingKeyPerQuery ==
  [][\A s \in Slots :
       ( /\ ListCacheGet(s)
         /\ req[s].kind = "list"
         /\ CacheHit(cache, ListKey(req[s]), clock) )
       => StoreQuery(cache[ListKey(req[s])].val.query) = StoreQuery(req[s].query)]_vars

\* the keys the read handlers of site x consult: getArticleById,
\* getArticleBySlug, getAllArticles, getTopStories and getHeadline
ReadKeysOf(x) ==
  {PrefixOf(x) \o <<"article", "id", ToString(i)>> : i \in Ids}
    \cup {PrefixOf(x) \o <<"article", sl>> : sl \in Slugs}
    \cup {PrefixOf(x) \o <<"articles", "all", ToString(q.page), ToString(q.limit)>> :
             q \in ListQueries}
    \cup {PrefixOf(x) \o <<"topstories", ToString(l)>> : l \in Limits}
    \cup {PrefixOf(x) \o <<"headline", "current">>}

\* the entry under key k is created, overwritten or deleted by the step
Touched(k) ==
  \/ (k \in DOMAIN cache) # (k \in DOMAIN cache')
  \/ k \in DOMAIN cache /\ k \in DOMAIN cache' /\ cache[k] # cache'[k]

\* C16: no step of a handler of one site creates, overwrites or deletes a
\* cache entry under a key that a read handler of another site consults.
C16_KeysNamespacedPerSite ==
  [][\A x \in Sites \ {site} : \A k \in ReadKeysOf(x) : ~Touched(k)]_vars

\* the step answers the request in slot s
Answered(s) == req[s].pc # "done" /\ req'[s].pc = "done"

\* the answer of a read as a cache miss gives it: the stored document, or 404
AnswersFromStore(a) ==
  LET found == Found(a) IN
  /\ ~a.cached
  /\ IF found = {} THEN a.status = 404
     ELSE a.status = 200 /\ \E i \in found : a.article = ToObject(store'[i])

\* the answer of a write whose mutation is in the store
MutationDone(a) ==
  CASE a.kind = "create" ->
         /\ a.status = 201
         /\ a.id \in DOMAIN store' /\ a.article = ToObject(store'[a.id])
    [] a.kind = "update" ->
         IF a.id \in DOMAIN store'
         THEN a.status = 200 /\ a.article = ToObject(store'[a.id])
         ELSE a.status = 404
    [] OTHER -> a.status \in {200, 404} /\ a.id \notin DOMAIN store'

\* C17: with every cache operation failing, a read is answered from the
\* store as on a cache miss, and a write is answered with its mutation in the
\* store: no answer carries the failure.
C17_CacheFailsOpen ==
  [][\A s \in Slots :
       (Answered(s) /\ RedisDown) =>
         IF req'[s].kind \in {"getById", "getBySlug"}
         THEN AnswersFromStore(req'[s])
         ELSE MutationDone(req'[s])]_vars

\* C17 witness: a fetch by id that arrived with Redis down, Redis holding an
\* entry for that Article, has been answered 200 from the store.
C17_Witness ==
  \E s \in Slots :
    /\ req[s].pc = "done" /\ req[s].kind = "getById" /\ req[s].down
    /\ req[s].status = 200 /\ ~req[s].cached
    /\ KeyById(req[s].id) \in DOMAIN cache

\* the step in slot s is the setCache of a read, made with Redis answering
SetsCache(s) == req[s].pc = "cacheSet" /\ req'[s].pc = "done" /\ ~RedisDown

\* the step in slot s is the invalidation of a write, with Redis answering
Invalidates(s) == req[s].pc = "invalidate" /\ req'[s].pc # "invalidate" /\ ~RedisDown

\* the patterns `prefix*` the invalidation of the write in slot s deletes
PrefixesOf(r) ==
  {p \in InvalidatePatterns(IF r.kind = "delete" THEN r.existing.slug
                            ELSE r.article.slug) : p.star}

\* after invalidate(prefix), get(k) is absent for every key under a prefix
AbsentAfterInvalidate ==
  \A s \in Slots :
    Invalidates(s) => LiveKeys(cache', PrefixesOf(req[s]), clock') = {}

VoteSaved(s) == vote[s].pc = "save" /\ vote'[s].pc = "invalidate"

\* C19: on every comment and reply, whatever votes were cast, no voter is in
\* both upvotedBy and downvotedBy.
C19_VoterOnOneSide ==
  \A t \in DOMAIN thread.items :
    Members(thread.items[t].upvotedBy)
      \cap Members(thread.items[t].downvotedBy) = {}

\* C19 witness: a voter who had upvoted has downvoted the same comment or
\* reply and now stands in downvotedBy.
C19_Witness ==
  /\ thread.last.op = "down"
  /\ Includes(thread.last.before.upvotedBy, thread.last.voter)
  /\ Includes(thread.items[thread.last.target].downvotedBy, thread.last.voter)

\* the saved vote of slot s repeats the latest saved vote: same direction,
\* same comment or reply, same voter
Repeats(s) ==
  /\ VoteSaved(s)
  /\ thread.last.op = vote[s].op
  /\ thread.last.target = vote[s].target
  /\ thread.last.voter = vote[s].voter

\* C20: a vote that repeats the vote saved just before it, by the same voter
\* on the same comment or reply, leaves the count and the voters of that
\* direction as they were before the first of the two.
C20_VoteTwiceToggles ==
  [][\A s \in Slots :
       Repeats(s) =>
         LET before == thread.last.before
             after == thread'.items[vote[s].target]
         IN  IF vote[s].op = "up"
             THEN /\ after.upvotes = before.upvotes
                  /\ Members(after.upvotedBy) = Members(before.upvotedBy)
             ELSE /\ after.downvotes = before.downvotes
                  /\ Members(after.downvotedBy) = Members(before.downvotedBy)]_vars

\* C20 witness: an upvote has been saved right after the same voter's upvote
\* of the same reply, which had added the voter.
C20_Witness ==
  /\ thread.last.again
  /\ thread.last.op = "up" /\ thread.last.target = "reply"
  /\ Includes(thread.last.before.upvotedBy, thread.last.voter)
  /\ ~Includes(thread.items["reply"].upvotedBy, thread.last.voter)

\* the saved vote of slot s is a downvote that follows the upvote the same
\* voter cast on the same comment or reply, saved just before it
Switches(s) ==
  /\ VoteSaved(s)
  /\ vote[s].op = "down" /\ thread.last.op = "up"
  /\ thread.last.target = vote[s].target
  /\ thread.last.voter = vote[s].voter
  /\ ~Includes(thread.last.before.upvotedBy, vote[s].voter)

CommentPersisted ==
  \E t \in Targets : t \notin DOMAIN thread.items /\ t \in DOMAIN thread'.items

\* C22: no comment and no reply is persisted on an Article whose stored
\* isLive is true at that moment, whatever update runs beside the request.
C22_NoCommentWhileLive ==
  [][CommentPersisted => ~store[Commented].isLive]_vars

\* C23: an Article whose wasLive is true has isLive false, in every state,
\* whatever updates were applied.
C23_WasLiveNeverLive ==
  \A i \in DOMAIN store : store[i].wasLive => ~store[i].isLive

\* C24: an Article with isLive true stores its content as blocks, an Article
\* with isLive false as a string.
C24_ContentShapeFollowsLive ==
  \A i \in DOMAIN store :
    store[i].content = IF store[i].isLive THEN "blocks" ELSE "string"

\* C25: on ghanapolitan, in every reachable state, an Article has
\* has_section = true if and only if its section_name is not empty.
C25_HasSectionIffName ==
  HasSections =>
    \A i \in DOMAIN store : store[i].has_section <=> store[i].section_name # ""

\* the stored articles_count of the Section `slug` is the number of Articles
\* with has_section = true and that section_slug
CountCorrect(secs, st, slug) ==
  secs.docs[SectionIndex(secs, slug)].articles_count = CountDocuments(st, slug)

\* the step moves Article id from Section s1 to another Section s2
Moved(id, s1, s2) ==
  /\ s1 # s2
  /\ id \in DOMAIN store /\ id \in DOMAIN store'
  /\ store[id].has_section /\ store[id].section_slug = s1
  /\ store'[id].has_section /\ store'[id].section_slug = s2
  /\ SectionIndex(sections, s1) # 0 /\ SectionIndex(sections, s2) # 0
  /\ SectionIndex(sections', s1) # 0 /\ SectionIndex(sections', s2) # 0

\* C26: a step that moves an Article from Section S1 to another Section S2,
\* by update or by assign, with no other request running and both counts
\* correct before it, leaves both articles_count equal to the number of
\* has_section Articles of their section_slug.
C26_MoveKeepsCounts ==
  [][\A id \in Ids, s1 \in SectionSlugs, s2 \in SectionSlugs :
       /\ Moved(id, s1, s2)
       /\ CountCorrect(sections, store, s1)
       /\ CountCorrect(sections, store, s2)
       => /\ CountCorrect(sections', store', s1)
          /\ CountCorrect(sections', store', s2)]_vars

\* C27: a GET of a Section by slug answers the current number of Articles
\* of that Section, also after an Article of the Section was created or
\* deleted and when the Section was read and cached before that write.
C27_SectionReadIsCurrent ==
  [][\A x \in SectionSlugs :
       GetSectionBySlug(x) /\ sections'.last.status = 200
       => sections'.last.count = CountDocuments(store', x)]_vars

\* C28: updateSectionArticlesCount(sectionSlug), run with no other request
\* in flight on a Section that exists, leaves the stored articles_count
\* equal to the number of Articles with has_section = true and that
\* section_slug, and returns that number.
C28_RecountStoresActualCount ==
  [][\A x \in SectionSlugs :
       UpdateSectionArticlesCount(x) /\ SectionExists(x)
       => /\ CountCorrect(sections', store', x)
          /\ sections'.last.count = CountDocuments(store', x)]_vars

\* a recount has corrected a stored count that was wrong
C28_Witness ==
  /\ sections.last.op = "recount"
  /\ sections.last.before # Null
  /\ sections.last.before # sections.last.count
  /\ SectionExists(sections.last.slug)
  /\ SectionOf(sections.last.slug).articles_count = sections.last.count
  /\ sections.last.count = CountDocuments(store, sections.last.slug)

\* isActive of the Section document d is what its expires_at makes it
ActiveDerived(d, now) ==
  d.isActive <=> (d.expires_at = Null \/ d.expires_at > now)

\* the step is a write of the Section x: its creation, an update, a toggle
\* of its active status or an extension of its expiration
SectionWritten(x) ==
  \/ ~SectionExists(x) /\ CreateSection(x, {Null} \cup SectionExpiries(clock))
  \/ /\ SectionExists(x)
     /\ UpdateSection(x) \/ ToggleActiveStatus(x) \/ ExtendExpiration(x)

\* C29: right after a write of a Section (create, update, toggle of the
\* active status, extension of the expiration) its stored isActive is true
\* exactly when it has no expires_at or its expires_at is in the future.
C29_ActiveFollowsExpiry ==
  [][\A x \in SectionSlugs :
       SectionWritten(x)
       => ActiveDerived(sections'.docs[SectionIndex(sections', x)], clock')]_vars

\* the step answers a create or a rename whose slug another Article has
SlugRejected(s) ==
  LET r == req[s] IN
  /\ req'[s].pc = "done"
  /\ \/ r.pc = "save" /\ SlugTaken(store, SlugFor(r.body, nextId), nextId)
     \/ /\ r.pc = "write" /\ r.id \in DOMAIN store /\ Renames(r)
        /\ SlugTaken(store, SlugFor(r.body, r.id), r.id)
        /\ ~LivescoreRejected(r) /\ ~ContentRejected(r)

\* C30: a create or a rename whose slug collides with the one of a stored
\* Article is rejected as a conflict (409 or 400) and leaves the store as
\* it was when the request came: nothing is inserted or modified, and the
\* headline flags of the other Articles are those of that moment.
C30_SlugCollisionLeavesStore ==
  [][\A s \in Slots :
       SlugRejected(s)
       => /\ req'[s].status \in {400, 409}
          /\ store' = store
          /\ Headlines = req[s].preHeadlines]_vars

\* the step answers 400 to an update for its input: hasLivescore without a
\* livescoreTag, or isLive with a content that is no array
InputRejected(s) ==
  /\ req[s].pc = "write" /\ req'[s].pc = "done" /\ req'[s].status = 400
  /\ LivescoreRejected(req[s]) \/ ContentRejected(req[s])

\* C31: an update rejected with 400 for missing or malformed input has
\* changed nothing in the store before the rejection: the headline flags
\* are those of the moment the request came.
C31_RejectedBeforeMutation ==
  [][\A s \in Slots :
       InputRejected(s)
       => store' = store /\ Headlines = req[s].preHeadlines]_vars

\* the slug the description gives for a title, read off the title from left
\* to right: the word characters in lower case, with one hyphen between two
\* of them when a space or a hyphen stood between them
RECURSIVE SlugRead(_, _, _)
SlugRead(t, started, pending) ==
  IF t = <<>> THEN <<>>
  ELSE IF Head(t) \in WordChars
       THEN (IF started /\ pending THEN <<"-">> ELSE <<>>)
            \o <<LowerOf(Head(t))>> \o SlugRead(Tail(t), TRUE, FALSE)
       ELSE SlugRead(Tail(t), started,
                     pending \/ Head(t) \in Whitespace \cup {"-"})

\* no two adjacent hyphens, no hyphen first or last
WellHyphenated(t) ==
  /\ \A i \in 1..(Len(t) - 1) : ~(t[i] = "-" /\ t[i + 1] = "-")
  /\ t # <<>> => t[1] # "-" /\ t[Len(t)] # "-"

\* " Hello, World! ", "hello-world", "a--b" and "a-b" as titles
HelloWorld ==
  <<" ", "H", "e", "l", "l", "o", ",", " ", "W", "o", "r", "l", "d", "!", " ">>

\* C32: generate(title) is the title in lower case with whitespace runs
\* turned into hyphens, every character that is neither a word character nor
\* a hyphen removed, repeated hyphens collapsed and the hyphens at both ends
\* trimmed: the three examples of the description hold, and no output has two
\* adjacent hyphens or starts or ends with a hyphen.
C32_GenerateSlug ==
  /\ generateSlug(HelloWorld)
       = <<"h", "e", "l", "l", "o", "-", "w", "o", "r", "l", "d">>
  /\ generateSlug(<<>>) = <<>>
  /\ generateSlug(<<"a", "-", "-", "b">>) = <<"a", "-", "b">>
  /\ helpers.done
     => /\ helpers.slug = SlugRead(helpers.title, FALSE, FALSE)
        /\ WellHyphenated(helpers.slug)
        /\ \A i \in 1..Len(helpers.slug) :
             helpers.slug[i] \in (WordChars \cup {"-"}) \ {"A", "H", "W"}

\* a title with a space, a punctuation mark and an upper-case letter has been
\* turned into its slug
C32_Witness ==
  /\ helpers.done
  /\ helpers.title = <<" ", "!", "A">>
  /\ helpers.slug = <<"a">>

\* C33: whenever no request is in flight, the Article the cache names under
\* the current-headline key of the site has isHeadline = true in the store,
\* however headline reads interleaved with updates and deletes.
C33_CachedHeadlineIsHeadline ==
  (Quiet /\ CacheHit(cache, KeyOfHeadline, clock))
  => LET a == cache[KeyOfHeadline].val.headline
     IN  a.id \in DOMAIN store /\ store[a.id].isHeadline

\* the step is the store write of an update whose body does not mention
\* isHeadline, on an Article that is there
WritesWithoutHeadline(s) ==
  /\ req[s].pc = "write" /\ req[s].kind = "update"
  /\ req[s].body.isHeadline = "absent"
  /\ req[s].id \in DOMAIN store /\ req[s].id \in DOMAIN store'
  /\ store'[req[s].id] # store[req[s].id] \/ req'[s].pc = "invalidate"

\* C34: an update whose body does not mention isHeadline leaves the
\* isHeadline of the Article as it was: it never demotes the headline.
C34_UpdateKeepsHeadline ==
  [][\A s \in Slots :
       WritesWithoutHeadline(s)
       => store'[req[s].id].isHeadline = store[req[s].id].isHeadline]_vars

\* the step is the store write of an update whose body mentions no section
\* field, on an Article that is there
WritesWithoutSection(s) ==
  /\ req[s].pc = "write" /\ req[s].kind = "update"
  /\ req[s].body.section = "absent"
  /\ req[s].id \in DOMAIN store /\ req[s].id \in DOMAIN store'
  /\ req'[s].pc = "invalidate"

\* the section fields of an Article
SectionFields(d) ==
  <<d.section_id, d.section_name, d.section_slug, d.has_section>>

\* C35: an update whose body mentions no section field leaves the section
\* fields of the Article and the articles_count of every Section as they
\* were.
C35_UpdateKeepsSection ==
  [][\A s \in Slots :
       WritesWithoutSection(s)
       => /\ SectionFields(store'[req[s].id]) = SectionFields(store[req[s].id])
          /\ \A i \in DOMAIN sections.docs :
               sections'.docs[i].articles_count = sections.docs[i].articles_count]_vars

\* the counts of the comment or reply x are the sizes of its voter sets
CountsMatch(x) ==
  /\ x.upvotes = Cardinality(Members(x.upvotedBy))
  /\ x.downvotes = Cardinality(Members(x.downvotedBy))
  /\ x.upvotes >= 0 /\ x.downvotes >= 0

\* C36: for the comment and the reply, upvotes is the number of upvoters and
\* downvotes the number of downvoters, and neither is negative, whatever
\* votes were cast, also by different voters whose requests overlap.
C36_CountsMatchVoters ==
  \A t \in DOMAIN thread.items : CountsMatch(thread.items[t])

\* two voters voted on the comment, one up and one down, and a vote that
\* overlapped another was turned away by the version check of save()
C36_Witness ==
  /\ "comment" \in DOMAIN thread.items
  /\ thread.items["comment"].upvotes = 1
  /\ thread.items["comment"].downvotes = 1
  /\ \E s \in VoteSlots : vote[s].pc = "done" /\ vote[s].status = 500

\* the step stores an entry under the current-headline key
HeadlineStored ==
  /\ KeyOfHeadline \in DOMAIN cache'
  /\ KeyOfHeadline \in DOMAIN cache => cache'[KeyOfHeadline] # cache[KeyOfHeadline]

\* C37: with one request at a time, the entry a handler stores under the
\* current-headline key is, at that moment, what getHeadline computes from
\* the store on a miss: the same headline and the same similar Articles.
C37_CachedHeadlineIsComputed ==
  [][HeadlineStored
     => cache'[KeyOfHeadline].val = Json(HeadlineData(store'))]_vars

\* the step answers, with a failure, an update that brought an image, the
\* Article being there
ImageUpdateFailed(s) ==
  /\ req[s].kind = "update" /\ req[s].body.image
  /\ req[s].pc # "done" /\ req'[s].pc = "done"
  /\ req'[s].status >= 400
  /\ req[s].id \in DOMAIN store'

\* C38: when an update that brings a new image fails, on the upload or on
\* the store, the image_url the Article has in the store still names an
\* object of the bucket.
C38_FailedUpdateKeepsImage ==
  [][\A s \in Slots :
       ImageUpdateFailed(s)
       => \/ store'[req[s].id].image_url = 0
          \/ store'[req[s].id].image_url \in r2'.objects]_vars

\* the step answers a login that came within two hours of the fifth failed
\* attempt
AnsweredAfterFifth(s) ==
  /\ login[s].pc # "done" /\ login'[s].pc = "done"
  /\ login[s].afterFifth

\* C39: once five password attempts in a row have failed, every login that
\* comes in the following two hours is answered 423 with no password check,
\* also when the failed attempts overlapped.
C39_LockedAfterFiveFailures ==
  [][\A s \in LoginSlots :
       AnsweredAfterFifth(s)
       => login'[s].status = 423 /\ ~login'[s].checked]_vars

====
